---------------------------- MODULE Spec2Model ----------------------------
(***************************************************************************)
(* The data-shuffle stage of the distributed partitioning pipeline         *)
(* (tools/distpartitioning/data_shuffle.py).  world_size worker processes  *)
(* exchange edges, node records and feature rows so that every record ends *)
(* on the worker that owns its partition, and then write num_parts output  *)
(* partitions.                                                             *)
(*                                                                         *)
(* Arrays are sequences (positions 1..Len) of 0-based identifiers.  A     *)
(* collective (barrier, allgather_sizes, alltoallv_cpu, the metadata       *)
(* gather) is one joint action taken when every worker stands at it; the   *)
(* purely local statements that follow a collective up to the next         *)
(* statement with an effect visible to another worker are part of the     *)
(* same action.                                                            *)
(***************************************************************************)
EXTENDS Integers, Sequences, FiniteSets, TLC

\* ----------------------------------------------------------------- bounds
MaxWorldSize == 2
MaxLocalParts == 2
MaxNodes == 2
MaxEdges == 3
MaxNtypes == 2
MaxTypeNodes == 2
MaxFeatRows == 2
MaxFeatEdges == 2
MaxMesgSize == 1
MaxShapeRows == 3
MaxShapeNodes == 4
MaxSliceRows == 5

\* CHUNK_SIZE is 100 * 1000 * 1000 rows in the source; the model scales it
\* to 2 rows so that an edge list of MaxEdges rows spans several chunks.
CHUNK_SIZE == 2

\* ---------------------------------------------------------------- helpers
Min(a, b) == IF a < b THEN a ELSE b
Max(a, b) == IF a < b THEN b ELSE a

RECURSIVE SumSeq(_)
SumSeq(s) == IF s = <<>> THEN 0 ELSE Head(s) + SumSeq(Tail(s))

RECURSIVE MaxSeq(_)
MaxSeq(s) == IF Len(s) = 1 THEN s[1] ELSE Max(Head(s), MaxSeq(Tail(s)))

RECURSIVE Flatten(_)
Flatten(ss) == IF ss = <<>> THEN <<>> ELSE Head(ss) \o Flatten(Tail(ss))

BoundedSeq(S, n) == UNION {[1..k -> S] : k \in 0..n}

\* the slice with its end position included
SliceInclusive(a, start, end) == SubSeq(a, start + 1, Min(end + 1, Len(a)))

\* a[start:end] of numpy: positions start..end-1 (0-based), clipped to the array
Slice(a, start, end) == SubSeq(a, start + 1, Min(end, Len(a)))

\* a[mask] of numpy: the entries of a whose mask entry is TRUE, in order
RECURSIVE Compress(_, _)
Compress(a, mask) ==
    IF a = <<>> THEN <<>>
    ELSE (IF Head(mask) THEN <<Head(a)>> ELSE <<>>) \o Compress(Tail(a), Tail(mask))

\* ------------------------------------------------------------------ state
VARIABLES
    world_size,     \* W: number of worker processes
    num_parts,      \* P: number of output partitions
    ntype_counts,   \* the schema: the number of nodes of every node type, in type order
    part,           \* the partitioner's assignment: global node id -> partition id
    partitions_dir, \* the files {ntype}.txt the assignment is read from: per node type
                    \* whether the file exists and the partition ids of its lines
    test,           \* test_parmetis_wrapper: the node type its loop over the files is
                    \* at, and its result
    plan,           \* the functions of the pipeline that this run executes, in order
    ph,             \* per worker: index in plan of the function it is in
    pc,             \* per worker: the statement it stands at
    error,          \* per worker: the fatal error that ended it ("" when none)
    edge_files,     \* per worker: its chunk of the on-disk edge input (read-only)
    edge_data,      \* per worker: the edge_data dictionary
    es,             \* per worker: the locals of exchange_edge_data
    node_data,      \* per worker: the node_data dictionary
    ns,             \* per worker: the locals of gen_node_data
    feat_mesg_size, \* the configured cap of a feature message, in MB (0: no cap)
    feature_data,   \* per worker and feature kind: the tensors read, one per feature key
    feature_tids,   \* per worker and feature kind: per key, the type and type-id range read
    rcvd,           \* per worker and feature kind: the received tables and global-id columns
    fs,             \* per worker: the locals of exchange_features / exchange_feature
    ws,             \* per worker: the locals of the write loop of gen_dist_partitions
    sink,           \* the output directory: the partition files and the metadata document
    argsort,        \* the sort routine of the build, as far as the run has used it:
                    \* key array -> the index array that argsort returns for it
    last_collective \* per worker: the kind of the barrier or alltoall it completed last

vars == <<world_size, num_parts, ntype_counts, part, partitions_dir, test,
          plan, ph, pc, error,
          edge_files, edge_data, es, node_data, ns,
          feat_mesg_size, feature_data, feature_tids, rcvd, fs, ws, sink,
          argsort, last_collective>>

\* what no action of the pipeline changes
fixed == <<world_size, num_parts, ntype_counts, part, partitions_dir, test,
           plan, edge_files, feat_mesg_size, feature_data, feature_tids>>

\* the state of each function of the pipeline
edge_vars == <<edge_data, es>>
node_vars == <<node_data, ns>>
feat_vars == <<rcvd, fs>>
out_vars == <<ws, sink>>

Workers == 0..(world_size - 1)
LocalParts == 0..((num_parts \div world_size) - 1)
NumNodes == SumSeq(ntype_counts)
Nodes == 0..(NumNodes - 1)

\* ---------------------------------------------------- partition assignment
\* the global ids of node type t (0-based) start after the nodes of the types
\* before it
TypeOffset(t) == SumSeq(SubSeq(ntype_counts, 1, t))

\* the node type of a global node id
TypeOf(gnid) ==
    CHOOSE t \in 0..(Len(ntype_counts) - 1) :
        TypeOffset(t) <= gnid /\ gnid < TypeOffset(t) + ntype_counts[t + 1]

\* line i of {ntype}.txt is the partition id of type id i: the id a global
\* node id resolves to, -1 when the file or the line is not there
ResolvePartition(files, gnid) ==
    LET t == TypeOf(gnid)
        i == gnid - TypeOffset(t)
    IN IF ~files[t + 1].exists \/ i >= Len(files[t + 1].lines) THEN -1
       ELSE files[t + 1].lines[i + 1]

\* the files that an assignment was read from
PartitionFiles(assignment) ==
    [t \in 1..Len(ntype_counts) |->
        [exists |-> TRUE,
         lines |-> [i \in 1..ntype_counts[t] |-> assignment[TypeOffset(t - 1) + i - 1]]]]

TestNotRun == [at |-> 0, result |-> "not run"]

\* np.min and np.max of a non-empty array
MinOf(a) == CHOOSE x \in {a[i] : i \in 1..Len(a)} : \A i \in 1..Len(a) : x <= a[i]
MaxOf(a) == CHOOSE x \in {a[i] : i \in 1..Len(a)} : \A i \in 1..Len(a) : x >= a[i]

\* the checks of the test with the assertions on the smallest and the largest
\* id left out
PartIdsAcceptedByCount(file, count) ==
    /\ file.exists
    /\ Len(file.lines) # 1
    /\ Len(file.lines) = count

\* test_parmetis_wrapper, lines 271-278: the file exists; np.loadtxt gives an
\* array with a first dimension (a file of one line loads as a scalar, and
\* shape[0] is an IndexError); it has one id per node of the type; the
\* smallest id is 0 and the largest num_chunks - 1 (np.min of an empty array
\* is a ValueError)
PartIdsAccepted(file, count) ==
    /\ file.exists
    /\ Len(file.lines) # 1
    /\ Len(file.lines) = count
    /\ Len(file.lines) # 0
    /\ MinOf(file.lines) = 0
    /\ MaxOf(file.lines) = num_parts - 1

\* lines 269-278: one pass of the loop over the node types
CheckPartitionFile ==
    /\ test.result = "running"
    /\ test' = IF ~PartIdsAccepted(partitions_dir[test.at + 1], ntype_counts[test.at + 1])
               THEN [test EXCEPT !.result = "failed"]
               ELSE IF test.at + 1 < Len(ntype_counts)
               THEN [test EXCEPT !.at = @ + 1]
               ELSE [test EXCEPT !.result = "passed"]
    /\ UNCHANGED <<world_size, num_parts, ntype_counts, part, partitions_dir,
                   plan, ph, pc, error, edge_files, edge_data, es, node_data, ns,
                   feat_mesg_size, feature_data, feature_tids, rcvd, fs, ws, sink,
                   argsort, last_collective>>

\* -------------------------------------------------------- external helpers
\* DistLookupService.get_partition_ids: the partition id of every queried
\* global node id, in the caller's order.
get_partition_ids(gnids) == [i \in 1..Len(gnids) |-> part[gnids[i]]]

\* allgather_sizes(..., return_sizes=True): the concatenation, in rank order,
\* of the vector each worker contributes.
allgather_sizes(contrib) == Flatten([i \in 1..world_size |-> contrib[i - 1]])

\* the exchange with the received list in descending sender rank
alltoallv_cpuDescending(inputs, r) ==
    [i \in 1..world_size |-> inputs[world_size - i][r + 1]]

\* alltoallv_cpu: worker r receives, in sender-rank order, the buffer every
\* sender addressed to it; a zero-row buffer arrives as a zero-row buffer.
alltoallv_cpu(inputs, r) == [i \in 1..world_size |-> inputs[i - 1][r + 1]]

\* --------------------------------------------------------- the harness
Entry(phase) ==
    CASE phase = "exchange_edge_data" -> "edge_barrier_begin"
      [] phase = "gen_node_data" -> "node_barrier"
      [] phase \in {"exchange_node_features", "exchange_edge_features"} -> "feat_begin"
      [] phase \in {"reorder_node_data", "reorder_edge_data"} -> "reorder_data"
      [] phase \in {"assign_shuffle_global_nids_nodes",
                    "assign_shuffle_global_nids_edges"} -> "assign_barrier"
      [] phase \in {"reorder_node_features", "reorder_edge_features"} -> "reorder_features"
      [] phase = "write_partitions" ->
             IF num_parts \div world_size = 0 THEN "gather_metadata" ELSE "write_barrier"
      [] phase = "exchange_features_line_856" -> "feat_call"
      [] phase = "barrier" -> "phase_barrier"
      [] OTHER -> "done"

\* the worker leaves the function it is in and enters the next one of the plan
Return(r) ==
    /\ ph' = [ph EXCEPT ![r] = @ + 1]
    /\ pc' = [pc EXCEPT ![r] = IF ph[r] + 1 > Len(plan) THEN "done"
                                ELSE Entry(plan[ph[r] + 1])]

AllAt(label) == \A r \in Workers : pc[r] = label

\* every worker has completed a collective of this kind; last_collective
\* keeps the kind of the last one that was a barrier or an alltoall
Collective(kind) ==
    last_collective' = IF kind \in {"barrier", "alltoall"}
                       THEN [r \in Workers |-> kind] ELSE last_collective

\* ------------------------------------------------------ exchange_edge_data
EdgeColumns == {"global_src_id", "global_dst_id", "global_type_eid", "etype_id", "global_eid"}
NoEdges == [c \in EdgeColumns |-> <<>>]

\* edge_data[r].plain holds the unshuffled columns (keys "global_src_id", ...)
\* while the dictionary has them, as a one-element sequence; edge_data[r].local
\* maps l to the columns under the keys "global_src_id/l", ... once set.
Unshuffled(r) == edge_data[r].plain[1]

NumChunksFloor(max_edges) == max_edges \div CHUNK_SIZE

NumChunks(max_edges) ==
    (max_edges \div CHUNK_SIZE) + (IF max_edges % CHUNK_SIZE = 0 THEN 0 ELSE 1)

LocalChunkSizeFloor(num_edges, num_chunks) == num_edges \div num_chunks

LocalChunkSize(num_edges, num_chunks) ==
    (num_edges \div num_chunks) + (IF num_edges % num_chunks = 0 THEN 0 ELSE 1)

\* owner_ids == (idx + local_part_id * world_size)
SendIdxNoOffset(owner_ids, idx, local_part_id) ==
    [i \in 1..Len(owner_ids) |-> owner_ids[i] = idx]

SendIdx(owner_ids, idx, local_part_id) ==
    [i \in 1..Len(owner_ids) |-> owner_ids[i] = idx + local_part_id * world_size]

\* line 282: the owner of an edge is the partition of its destination
OwnerIdsBySrc(cur_src_id, cur_dst_id) == get_partition_ids(cur_src_id)

OwnerIds(cur_src_id, cur_dst_id) == get_partition_ids(cur_dst_id)

\* np.column_stack of the five filtered columns: one row of width 5 per edge
ColumnStack(src, dst, teid, etype, eid) ==
    [i \in 1..Len(src) |-> <<src[i], dst[i], teid[i], etype[i], eid[i]>>]

\* rows[:, k] of the received buffer (k 0-based)
Column(rows, k) == [i \in 1..Len(rows) |-> rows[i][k + 1]]

\* the buffers of the round with the destinations that get no edge left out
InputListOmitEmpty(r) ==
    LET raw == Unshuffled(r)
        start == es[r].chunk * es[r].LOCAL_CHUNK_SIZE
        end == (es[r].chunk + 1) * es[r].LOCAL_CHUNK_SIZE
        cur_src_id == Slice(raw.global_src_id, start, end)
        cur_dst_id == Slice(raw.global_dst_id, start, end)
        cur_type_eid == Slice(raw.global_type_eid, start, end)
        cur_etype_id == Slice(raw.etype_id, start, end)
        cur_eid == Slice(raw.global_eid, start, end)
        owner_ids == OwnerIds(cur_src_id, cur_dst_id)
    IN SelectSeq([i \in 1..world_size |->
          LET send_idx == SendIdx(owner_ids, i - 1, es[r].local_part_id)
          IN ColumnStack(Compress(cur_src_id, send_idx),
                         Compress(cur_dst_id, send_idx),
                         Compress(cur_type_eid, send_idx),
                         Compress(cur_etype_id, send_idx),
                         Compress(cur_eid, send_idx))],
                 LAMBDA buffer : buffer # <<>>)

\* lines 268-298: the W buffers worker r sends in this round
InputList(r) ==
    LET raw == Unshuffled(r)
        start == es[r].chunk * es[r].LOCAL_CHUNK_SIZE
        end == (es[r].chunk + 1) * es[r].LOCAL_CHUNK_SIZE
        cur_src_id == Slice(raw.global_src_id, start, end)
        cur_dst_id == Slice(raw.global_dst_id, start, end)
        cur_type_eid == Slice(raw.global_type_eid, start, end)
        cur_etype_id == Slice(raw.etype_id, start, end)
        cur_eid == Slice(raw.global_eid, start, end)
        owner_ids == OwnerIds(cur_src_id, cur_dst_id)
    IN [i \in 1..world_size |->
          LET send_idx == SendIdx(owner_ids, i - 1, es[r].local_part_id)
          IN ColumnStack(Compress(cur_src_id, send_idx),
                         Compress(cur_dst_id, send_idx),
                         Compress(cur_type_eid, send_idx),
                         Compress(cur_etype_id, send_idx),
                         Compress(cur_eid, send_idx))]

\* lines 295-298: the shapes of the W buffers, torch.empty((0, 5)) for a
\* destination without rows and the stacked columns for the others
InputShapes(r) ==
    [i \in 1..Len(es[r].input_list) |->
        IF Len(es[r].input_list[i]) <= 0
        THEN <<0, 5>>
        ELSE <<Len(es[r].input_list[i]), Len(es[r].input_list[i][1])>>]

\* line 236: the barrier at the start of the function
EdgeBarrierBegin ==
    /\ AllAt("edge_barrier_begin")
    /\ pc' = [r \in Workers |-> "edge_allgather"]
    /\ UNCHANGED <<fixed, ph, error, edge_vars, node_vars, feat_vars, out_vars>>
    /\ Collective("barrier")
    /\ UNCHANGED argsort

\* the chunking derived by every worker from its own edge count instead of
\* the largest gathered count
EdgeAllGatherOwnCount ==
    /\ AllAt("edge_allgather")
    /\ LET all_counts == allgather_sizes(
               [r \in Workers |-> <<Len(Unshuffled(r).global_src_id)>>])
           own_chunks == [r \in Workers |->
                            NumChunks(Len(Unshuffled(r).global_src_id))]
       IN /\ pc' = [r \in Workers |->
                      IF LocalParts = {} \/ own_chunks[r] = 0
                      THEN "edge_check" ELSE "edge_prepare"]
          /\ error' = error
          /\ es' = [r \in Workers |->
                [es[r] EXCEPT
                   !.all_edges = SumSeq(all_counts),
                   !.num_chunks = own_chunks[r],
                   !.local_part_id =
                       IF own_chunks[r] = 0 THEN num_parts \div world_size ELSE @,
                   !.LOCAL_CHUNK_SIZE =
                       IF own_chunks[r] = 0 THEN 0
                       ELSE LocalChunkSize(Len(Unshuffled(r).global_src_id),
                                           own_chunks[r])]]
    /\ UNCHANGED <<fixed, ph, edge_data, node_vars, feat_vars, out_vars>>
    /\ Collective("allgather")
    /\ UNCHANGED argsort

\* lines 242-260: the counts are gathered and the chunking is derived.  With
\* no edge anywhere num_chunks is 0: the division of line 251 has a zero
\* divisor and no array is left to concatenate at line 316, and the function
\* ends in an exception.  With num_parts < world_size the loop of line 260 has
\* no pass, so nothing is concatenated; max_edges and num_chunks are numpy
\* integers (np.amax), whose floor division by zero gives 0 with a warning,
\* and the worker goes on to the check of line 331.
EdgeAllGather ==
    /\ AllAt("edge_allgather")
    /\ LET all_counts == allgather_sizes(
               [r \in Workers |-> <<Len(Unshuffled(r).global_src_id)>>])
           max_edges == MaxSeq(all_counts)
           num_chunks == NumChunks(max_edges)
       IN IF num_chunks = 0 /\ LocalParts # {}
          THEN /\ pc' = [r \in Workers |-> "failed"]
               /\ error' = [r \in Workers |-> "ZeroChunks"]
               /\ es' = es
          ELSE /\ pc' = [r \in Workers |->
                          IF LocalParts = {} THEN "edge_check" ELSE "edge_prepare"]
               /\ error' = error
               /\ es' = [r \in Workers |->
                     [es[r] EXCEPT
                        !.all_edges = SumSeq(all_counts),
                        !.num_chunks = num_chunks,
                        !.LOCAL_CHUNK_SIZE =
                            IF num_chunks = 0 THEN 0
                            ELSE LocalChunkSize(Len(Unshuffled(r).global_src_id),
                                                num_chunks)]]
    /\ UNCHANGED <<fixed, ph, edge_data, node_vars, feat_vars, out_vars>>
    /\ Collective("allgather")
    /\ UNCHANGED argsort

\* lines 268-298: worker r slices its chunk and buckets it by owner
EdgePrepare(r) ==
    /\ pc[r] = "edge_prepare"
    /\ es' = [es EXCEPT ![r].input_list = InputList(r)]
    /\ pc' = [pc EXCEPT ![r] = "edge_barrier"]
    /\ UNCHANGED <<fixed, ph, error, edge_data, node_vars, feat_vars, out_vars>>
    /\ UNCHANGED <<argsort, last_collective>>

\* the round without its barrier
EdgeBarrierSkipped ==
    /\ AllAt("edge_barrier")
    /\ pc' = [r \in Workers |-> "edge_alltoall"]
    /\ UNCHANGED <<fixed, ph, error, edge_vars, node_vars, feat_vars, out_vars>>
    /\ UNCHANGED <<argsort, last_collective>>

\* line 301
EdgeBarrier ==
    /\ AllAt("edge_barrier")
    /\ pc' = [r \in Workers |-> "edge_alltoall"]
    /\ UNCHANGED <<fixed, ph, error, edge_vars, node_vars, feat_vars, out_vars>>
    /\ Collective("barrier")
    /\ UNCHANGED argsort

\* the locals after a round with the type-edge id and the global edge id
\* unpacked from each other's column and the edge type set anew
EdgeReceivedRecomputed(r, rows) ==
    LET acc == [global_src_id |-> es[r].acc.global_src_id \o Column(rows, 0),
                global_dst_id |-> es[r].acc.global_dst_id \o Column(rows, 1),
                global_type_eid |-> es[r].acc.global_type_eid \o Column(rows, 4),
                etype_id |-> es[r].acc.etype_id \o [i \in 1..Len(rows) |-> 0],
                global_eid |-> es[r].acc.global_eid \o Column(rows, 2)]
        last_chunk == es[r].chunk + 1 = es[r].num_chunks
    IN [locals |-> [es[r] EXCEPT
                      !.input_list = <<>>,
                      !.acc = IF last_chunk THEN NoEdges ELSE acc,
                      !.chunk = IF last_chunk THEN 0 ELSE @ + 1,
                      !.local_part_id = IF last_chunk THEN @ + 1 ELSE @],
        data |-> IF last_chunk
                 THEN [edge_data[r] EXCEPT
                         !.local = (es[r].local_part_id :> acc) @@ @]
                 ELSE edge_data[r],
        next |-> IF last_chunk /\ es[r].local_part_id + 1 \notin LocalParts
                 THEN "edge_check" ELSE "edge_prepare"]

\* the locals of worker r after it has received rows in this round
\* (lines 307-328 and the two loop headers)
EdgeReceived(r, rows) ==
    LET acc == [global_src_id |-> es[r].acc.global_src_id \o Column(rows, 0),
                global_dst_id |-> es[r].acc.global_dst_id \o Column(rows, 1),
                global_type_eid |-> es[r].acc.global_type_eid \o Column(rows, 2),
                etype_id |-> es[r].acc.etype_id \o Column(rows, 3),
                global_eid |-> es[r].acc.global_eid \o Column(rows, 4)]
        last_chunk == es[r].chunk + 1 = es[r].num_chunks
    IN [locals |-> [es[r] EXCEPT
                      !.input_list = <<>>,
                      !.acc = IF last_chunk THEN NoEdges ELSE acc,
                      !.chunk = IF last_chunk THEN 0 ELSE @ + 1,
                      !.local_part_id = IF last_chunk THEN @ + 1 ELSE @],
        data |-> IF last_chunk
                 THEN [edge_data[r] EXCEPT
                         !.local = (es[r].local_part_id :> acc) @@ @]
                 ELSE edge_data[r],
        next |-> IF last_chunk /\ es[r].local_part_id + 1 \notin LocalParts
                 THEN "edge_check" ELSE "edge_prepare"]

\* lines 302-328: the exchange of one round and what each worker does with
\* the rows it receives
EdgeAllToAll ==
    /\ AllAt("edge_alltoall")
    /\ LET inputs == [r \in Workers |-> es[r].input_list]
           got == [r \in Workers |->
                     EdgeReceived(r, Flatten(alltoallv_cpu(inputs, r)))]
       IN /\ es' = [r \in Workers |-> got[r].locals]
          /\ edge_data' = [r \in Workers |-> got[r].data]
          /\ pc' = [r \in Workers |-> got[r].next]
    /\ UNCHANGED <<fixed, ph, error, node_vars, feat_vars, out_vars>>
    /\ Collective("alltoall")
    /\ UNCHANGED argsort

\* lines 331-335
LocalEdgeCount(r) ==
    SumSeq([i \in 1..(num_parts \div world_size) |->
               Len(edge_data[r].local[i - 1].global_src_id)])

\* the check of lines 331-340 with every worker comparing the rows it holds
\* with the rows it has read
EdgeCheckLocalCounts ==
    /\ AllAt("edge_check")
    /\ es' = [r \in Workers |-> [es[r] EXCEPT !.shuffle_edge_total = LocalEdgeCount(r)]]
    /\ pc' = [r \in Workers |->
                IF LocalEdgeCount(r) = Len(edge_files[r].global_src_id)
                THEN "edge_cleanup" ELSE "failed"]
    /\ error' = [r \in Workers |->
                IF LocalEdgeCount(r) = Len(edge_files[r].global_src_id)
                THEN error[r] ELSE "ConservationFailure"]
    /\ UNCHANGED <<fixed, ph, edge_data, node_vars, feat_vars, out_vars>>
    /\ Collective("allgather")
    /\ UNCHANGED argsort

\* lines 331-340: the conservation check
EdgeCheck ==
    /\ AllAt("edge_check")
    /\ LET shuffle_edge_counts ==
               allgather_sizes([r \in Workers |-> <<LocalEdgeCount(r)>>])
           shuffle_edge_total == SumSeq(shuffle_edge_counts)
       IN /\ es' = [r \in Workers |->
                      [es[r] EXCEPT !.shuffle_edge_total = shuffle_edge_total]]
          /\ pc' = [r \in Workers |->
                      IF shuffle_edge_total = es[r].all_edges
                      THEN "edge_cleanup" ELSE "failed"]
          /\ error' = [r \in Workers |->
                      IF shuffle_edge_total = es[r].all_edges
                      THEN error[r] ELSE "ConservationFailure"]
    /\ UNCHANGED <<fixed, ph, edge_data, node_vars, feat_vars, out_vars>>
    /\ Collective("allgather")
    /\ UNCHANGED argsort

\* lines 347-354: the unshuffled columns are dropped and the function returns
EdgeCleanup(r) ==
    /\ pc[r] = "edge_cleanup"
    /\ edge_data' = [edge_data EXCEPT ![r].plain = <<>>]
    /\ Return(r)
    /\ UNCHANGED <<fixed, error, es, node_vars, feat_vars, out_vars>>
    /\ UNCHANGED <<argsort, last_collective>>

\* ------------------------------------------------------------ gen_node_data
NodeColumns == {"global_nid", "ntype_id", "global_type_nid"}
NoNodes == [c \in NodeColumns |-> <<>>]

\* np.arange(start, end)
Arange(start, end) == [i \in 1..(end - start) |-> start + i - 1]

\* get_idranges: node type t (0-based) has the type ids [0, N_t) and the
\* global ids [offset(t), offset(t) + N_t), offset(t) the nodes of the types
\* before it
GnidStart(t) == SumSeq(SubSeq(ntype_counts, 1, t))
GnidEnd(t) == GnidStart(t) + ntype_counts[t + 1]
TypeStart(t) == 0
TypeEnd(t) == ntype_counts[t + 1]

\* line 187: cond = node_partid_slice == (rank + local_part_id * world_size)
NodeCondAnyPass(node_partid_slice, r, local_part_id) ==
    [i \in 1..Len(node_partid_slice) |-> node_partid_slice[i] % world_size = r]

NodeCond(node_partid_slice, r, local_part_id) ==
    [i \in 1..Len(node_partid_slice) |->
        node_partid_slice[i] = r + local_part_id * world_size]

\* the rows of node type t with the global id in the type-id column
OwnNodesGlobalAsTypeId(r, t, l) ==
    LET node_partid_slice == get_partition_ids(Arange(GnidStart(t), GnidEnd(t)))
        cond == NodeCond(node_partid_slice, r, l)
        own_gnids == Compress(Arange(GnidStart(t), GnidEnd(t)), cond)
    IN [global_nid |-> own_gnids,
        ntype_id |-> [i \in 1..Len(own_gnids) |-> t],
        global_type_nid |-> own_gnids]

\* lines 186-202: the rows that worker r appends for node type t to the
\* lists of local partition l
OwnNodes(r, t, l) ==
    LET node_partid_slice == get_partition_ids(Arange(GnidStart(t), GnidEnd(t)))
        cond == NodeCond(node_partid_slice, r, l)
        own_gnids == Compress(Arange(GnidStart(t), GnidEnd(t)), cond)
        own_tnids == Compress(Arange(TypeStart(t), TypeEnd(t)), cond)
    IN [global_nid |-> own_gnids,
        ntype_id |-> [i \in 1..Len(own_gnids) |-> t],
        global_type_nid |-> own_tnids]

\* line 171: the barrier at the head of every node type
NodeBarrier ==
    /\ AllAt("node_barrier")
    /\ pc' = [r \in Workers |-> "node_gen"]
    /\ UNCHANGED <<fixed, ph, error, edge_vars, node_vars, feat_vars, out_vars>>
    /\ Collective("barrier")
    /\ UNCHANGED argsort

\* lines 173-207: worker r looks up the partition of every node of the
\* current type and keeps the nodes of its local partitions; after the last
\* type the lists are concatenated and the function returns
NodeGen(r) ==
    /\ pc[r] = "node_gen"
    /\ LET t == ns[r].ntype_id
       IN /\ node_data' = [node_data EXCEPT ![r] =
                 [l \in LocalParts |->
                     [c \in NodeColumns |-> node_data[r][l][c] \o OwnNodes(r, t, l)[c]]]]
          /\ ns' = [ns EXCEPT ![r].ntype_id = t + 1]
          /\ IF t + 1 < Len(ntype_counts)
             THEN pc' = [pc EXCEPT ![r] = "node_barrier"] /\ ph' = ph
             ELSE Return(r)
    /\ UNCHANGED <<fixed, error, edge_vars, feat_vars, out_vars>>
    /\ UNCHANGED <<argsort, last_collective>>

NsInit == [ntype_id |-> 0]

\* --------------------------------------------------------- exchange_features
\* MB is 1024 * 1024 bytes in the source; the model scales it to 2 bytes so
\* that a tensor of two rows of two bytes is a message of two MB.
MB == 2

FeatKinds == {"node_features", "edge_features"}

\* the element types and their ids (DATA_TYPE_ID and REV_DATA_TYPE_ID of the
\* constants module), and the bytes of an element (Tensor.element_size())
DataTypes ==
    <<"float32", "float64", "float16", "uint8", "int8", "int16", "int32", "int64", "bool">>
DATA_TYPE_ID(dtype) == (CHOOSE i \in 1..Len(DataTypes) : DataTypes[i] = dtype) - 1
REV_DATA_TYPE_ID(id) == DataTypes[id + 1]
ElementSize(dtype) ==
    CASE dtype \in {"uint8", "int8", "bool"} -> 1
      [] dtype \in {"float16", "int16"} -> 2
      [] dtype \in {"float32", "int32"} -> 4
      [] OTHER -> 8

\* a feature tensor: its rows (each stands for the row of the entity with
\* that id), the dimensions after the first (tail), and the element type;
\* None is the entry of a worker that read no data for the key
None == [present |-> FALSE, rows |-> <<>>, tail |-> <<>>, dtype |-> "float32"]
Tensor(rows, tail, dtype) == [present |-> TRUE, rows |-> rows, tail |-> tail, dtype |-> dtype]

\* tensor.shape
Shape(t) == <<Len(t.rows)>> \o t.tail

RECURSIVE Prod(_)
Prod(s) == IF s = <<>> THEN 1 ELSE Head(s) * Prod(Tail(s))

CeilDiv(a, b) == (a \div b) + (IF a % b = 0 THEN 0 ELSE 1)

\* line 67: np.split(shapes, world_size) raises ValueError unless the
\* gathered vector divides into world_size pieces of equal length
SplitFails(shapes) == Len(shapes) % world_size # 0

\* lines 65-75, for a vector that np.split accepts: piece i is taken for the
\* shape of worker i, and every piece is priced with the caller's element size
_get_num_chunks(shapes, dtype_sz, msg_size) ==
    LET k == Len(shapes) \div world_size
        sizes == [i \in 1..world_size |->
                     Prod(SubSeq(shapes, (i - 1) * k + 1, i * k)) * dtype_sz]
        max_msg_size == IF MaxSeq(sizes) < MB THEN 1 ELSE MaxSeq(sizes) \div MB
    IN IF msg_size = 0 THEN 1 ELSE CeilDiv(max_msg_size, msg_size)

\* line 721
RowsPerChunk(rows, num_msg_chunks) ==
    IF rows < num_msg_chunks THEN rows ELSE rows \div num_msg_chunks

\* the feature kind of the exchange_features call the worker is in
FeatType(r) ==
    IF plan[ph[r]] = "exchange_node_features" THEN "node_features" ELSE "edge_features"

\* the ascending sequence of the members of a finite set of integers
RECURSIVE SortedSeq(_)
SortedSeq(S) ==
    IF S = {} THEN <<>>
    ELSE LET m == CHOOSE x \in S : \A y \in S : x <= y
         IN <<m>> \o SortedSeq(S \ {m})

Range(a) == {a[i] : i \in 1..Len(a)}

\* a[idx] of numpy for an index array idx (0-based indices)
Take(a, idx) == [i \in 1..Len(idx) |-> a[idx[i] + 1]]

\* np.intersect1d(ar1, ar2, return_indices=True): the common values ascending,
\* and for each the 0-based index of its first occurrence in ar1 (idx1)
Intersect1d(ar1, ar2) ==
    LET common == SortedSeq(Range(ar1) \cap Range(ar2))
    IN [common |-> common,
        idx1 |-> [j \in 1..Len(common) |->
                    (CHOOSE p \in 1..Len(ar1) :
                        /\ ar1[p] = common[j]
                        /\ \A q \in 1..(p - 1) : ar1[q] # common[j]) - 1]]

\* type_id_map[type_name][0]: the first global id of a node type; the edge
\* shuffle inputs have one edge type, whose global edge ids start at 0
BeginGlobalId(feat_type, t) == IF feat_type = "node_features" THEN GnidStart(t) ELSE 0

FsInit ==
    [key |-> 1, local_part_id |-> 0, num_msg_chunks |-> 0, rows_per_chunk |-> 0,
     all_dims |-> <<>>, all_dims_dtype |-> <<>>, chunk |-> 0, start |-> 0, end |-> 0,
     chunk_typeid_start |-> 0, chunk_typeid_end |-> 0,
     chunk_gid_start |-> 0, chunk_gid_end |-> 0,
     partid_slice |-> <<>>, feats_per_rank |-> <<>>, global_id_per_rank |-> <<>>,
     output_feat_list |-> <<>>]

\* own_features and own_global_ids, keyed by (feature key, local partition);
\* meta keeps, for every table of own_features, its shape and the element
\* types of the buffers its rows came from
NoFeatures == [features |-> <<>>, global_ids |-> <<>>, meta |-> <<>>]

\* lines 643-647 and 689: own_features = {}, own_global_ids = {}; with no
\* feature key, or with no local partition, the function returns the empty
\* dictionaries
FeatBegin(r) ==
    /\ pc[r] = "feat_begin"
    /\ rcvd' = [rcvd EXCEPT ![r][FeatType(r)] = NoFeatures]
    /\ fs' = [fs EXCEPT ![r] = FsInit]
    /\ IF Len(feature_tids[r][FeatType(r)]) = 0 \/ num_parts \div world_size = 0
       THEN Return(r)
       ELSE pc' = [pc EXCEPT ![r] = "feat_barrier"] /\ ph' = ph
    /\ UNCHANGED <<fixed, error, edge_vars, node_vars, out_vars>>
    /\ UNCHANGED <<argsort, last_collective>>

\* line 693
FeatBarrier ==
    /\ AllAt("feat_barrier")
    /\ pc' = [r \in Workers |-> "feat_dims"]
    /\ UNCHANGED <<fixed, ph, error, edge_vars, node_vars, feat_vars, out_vars>>
    /\ Collective("barrier")
    /\ UNCHANGED argsort

\* lines 698-700
FeatDims(r) ==
    LET featdata_key == feature_data[r][FeatType(r)][fs[r].key]
    IN IF featdata_key.present THEN Shape(featdata_key) ELSE <<0>>

\* lines 701-703: the allgather of the tensor shapes; every worker keeps the
\* gathered vector in place of its own contribution
FeatAllGatherDims ==
    /\ AllAt("feat_dims")
    /\ LET all_dims == allgather_sizes([r \in Workers |-> FeatDims(r)])
       IN fs' = [r \in Workers |-> [fs[r] EXCEPT !.all_dims = all_dims]]
    /\ pc' = [r \in Workers |-> "feat_chunks"]
    /\ UNCHANGED <<fixed, ph, error, edge_vars, node_vars, rcvd, out_vars>>
    /\ Collective("allgather")
    /\ UNCHANGED argsort

\* the (feature key, type, type-id range) entry the worker is shuffling
FeatInfo(r) == feature_tids[r][FeatType(r)][fs[r].key]
FeatDataKey(r) == feature_data[r][FeatType(r)][fs[r].key]

\* the lookup of lines 445-472 without the assertions of lines 467-471: an
\* edge id that the worker has not read is given partition 0
PartidSliceUnchecked(r, gid_start, gid_end) ==
    IF FeatType(r) = "node_features"
    THEN [err |-> "", ids |-> get_partition_ids(Arange(gid_start, gid_end))]
    ELSE IF edge_data[r].plain = <<>> THEN [err |-> "KeyError", ids |-> <<>>]
    ELSE LET data == Unshuffled(r)
             global_eids == Arange(gid_start, gid_end)
         IN [err |-> "",
             ids |-> [i \in 1..Len(global_eids) |->
                        IF global_eids[i] \in Range(data.global_eid)
                        THEN part[data.global_dst_id[
                                 CHOOSE p \in 1..Len(data.global_eid) :
                                     data.global_eid[p] = global_eids[i]]]
                        ELSE 0]]

\* lines 445-472: the partition that owns every row of the chunk; err is the
\* assertion that fails when an edge id of the range is not in the worker's
\* unshuffled edge list
PartidSlice(r, gid_start, gid_end) ==
    IF FeatType(r) = "node_features"
    THEN [err |-> "", ids |-> get_partition_ids(Arange(gid_start, gid_end))]
    ELSE IF edge_data[r].plain = <<>> THEN [err |-> "KeyError", ids |-> <<>>]
    ELSE LET data == Unshuffled(r)
             global_eids == Arange(gid_start, gid_end)
             both == Intersect1d(data.global_eid, global_eids)
         IN IF Len(both.common) # Len(global_eids)
            THEN [err |-> "AssertionError", ids |-> <<>>]
            ELSE [err |-> "",
                  ids |-> get_partition_ids(Take(data.global_dst_id, both.idx1))]

\* lines 730-736: the bounds of the next chunk
\* the bounds of the next chunk with the type-id range left uncut at the last
\* row
ChunkBoundsTypeIdsUncut(r, f) ==
    [f EXCEPT !.end = Min(@ + f.rows_per_chunk, Len(FeatDataKey(r).rows)),
              !.chunk_typeid_end = @ + f.rows_per_chunk,
              !.chunk_gid_end =
                  Min(@ + f.rows_per_chunk,
                      BeginGlobalId(FeatType(r), FeatInfo(r).type) + FeatInfo(r).tids[2])]

ChunkBounds(r, f) ==
    IF f.end + f.rows_per_chunk > Len(FeatDataKey(r).rows)
    THEN [f EXCEPT !.end = Len(FeatDataKey(r).rows),
                   !.chunk_typeid_end = FeatInfo(r).tids[2],
                   !.chunk_gid_end = BeginGlobalId(FeatType(r), FeatInfo(r).type)
                                        + FeatInfo(r).tids[2]]
    ELSE [f EXCEPT !.end = @ + f.rows_per_chunk,
                   !.chunk_typeid_end = @ + f.rows_per_chunk,
                   !.chunk_gid_end = @ + f.rows_per_chunk]

\* the head of a loop iteration (lines 730-758) and of the exchange_feature
\* call it makes (lines 430-472), up to the first allgather of the call
EnterChunk(r, f) ==
    LET g == ChunkBounds(r, f)
        owners == PartidSlice(r, g.chunk_gid_start, g.chunk_gid_end)
    IN IF owners.err # ""
       THEN /\ pc' = [pc EXCEPT ![r] = "failed"]
            /\ error' = [error EXCEPT ![r] = owners.err]
            /\ fs' = [fs EXCEPT ![r] = g]
            /\ ph' = ph
       ELSE /\ pc' = [pc EXCEPT ![r] = "feat_lens"]
            /\ fs' = [fs EXCEPT ![r] = [g EXCEPT !.partid_slice = owners.ids]]
            /\ UNCHANGED <<ph, error>>

Fail(r, err) ==
    /\ pc' = [pc EXCEPT ![r] = "failed"]
    /\ error' = [error EXCEPT ![r] = err]

\* lines 704-728: the skip test on the first gathered dimension, the number
\* of chunks, and the head of the first iteration.  The log call of the skip
\* branch names local_feat_key, which exchange_features never binds; a worker
\* without a tensor fails at featdata_key.element_size(); np.split rejects
\* gathered shapes of unequal numbers of dimensions that do not add up to a
\* multiple of world_size; a tensor of zero rows divides by rows_per_chunk = 0.
FeatChunks(r) ==
    /\ pc[r] = "feat_chunks"
    /\ LET featdata_key == FeatDataKey(r)
           rows == Len(featdata_key.rows)
           n == _get_num_chunks(fs[r].all_dims, ElementSize(featdata_key.dtype),
                                feat_mesg_size)
           rows_per_chunk == RowsPerChunk(rows, n)
           begin_global_id == BeginGlobalId(FeatType(r), FeatInfo(r).type)
       IN IF fs[r].all_dims[1] <= 0
          THEN Fail(r, "NameError") /\ UNCHANGED <<ph, fs>>
          ELSE IF ~featdata_key.present
          THEN Fail(r, "AttributeError") /\ UNCHANGED <<ph, fs>>
          ELSE IF SplitFails(fs[r].all_dims)
          THEN Fail(r, "ValueError") /\ UNCHANGED <<ph, fs>>
          ELSE IF rows_per_chunk = 0
          THEN Fail(r, "ZeroDivisionError") /\ UNCHANGED <<ph, fs>>
          ELSE EnterChunk(r, [fs[r] EXCEPT
                   !.num_msg_chunks = CeilDiv(rows, rows_per_chunk),
                   !.rows_per_chunk = rows_per_chunk,
                   !.chunk = 0, !.start = 0, !.end = 0,
                   !.chunk_typeid_start = FeatInfo(r).tids[1],
                   !.chunk_typeid_end = FeatInfo(r).tids[1],
                   !.chunk_gid_start = begin_global_id + FeatInfo(r).tids[1],
                   !.chunk_gid_end = begin_global_id + FeatInfo(r).tids[1]])
    /\ UNCHANGED <<fixed, edge_vars, node_vars, rcvd, out_vars>>
    /\ UNCHANGED <<argsort, last_collective>>

\* lines 759-761 and the loop heads of lines 729, 689, 676 and 647: the next
\* chunk, else the next local partition, else the next key, else the return
FeatLoop(r) ==
    /\ pc[r] = "feat_loop"
    /\ LET f == [fs[r] EXCEPT !.start = fs[r].end,
                              !.chunk_typeid_start = fs[r].chunk_typeid_end,
                              !.chunk_gid_start = fs[r].chunk_gid_end,
                              !.chunk = @ + 1]
       IN IF f.chunk < f.num_msg_chunks
          THEN EnterChunk(r, f)
          ELSE IF f.local_part_id + 1 < num_parts \div world_size
          THEN /\ fs' = [fs EXCEPT ![r] = [f EXCEPT !.local_part_id = @ + 1]]
               /\ pc' = [pc EXCEPT ![r] = "feat_barrier"]
               /\ UNCHANGED <<ph, error>>
          ELSE IF f.key < Len(feature_tids[r][FeatType(r)])
          THEN /\ fs' = [fs EXCEPT ![r] = [f EXCEPT !.key = @ + 1, !.local_part_id = 0]]
               /\ pc' = [pc EXCEPT ![r] = "feat_barrier"]
               /\ UNCHANGED <<ph, error>>
          ELSE /\ fs' = [fs EXCEPT ![r] = FsInit]
               /\ Return(r)
               /\ error' = error
    /\ UNCHANGED <<fixed, edge_vars, node_vars, rcvd, out_vars>>
    /\ UNCHANGED <<argsort, last_collective>>

\* the rows featdata_key[start:end] handed to exchange_feature
ChunkFeatData(r) == Slice(FeatDataKey(r).rows, fs[r].start, fs[r].end)

\* lines 478-495: the allgather of the number of dimensions of the chunk
\* tensor (every worker that has come this far has one), the uniform return
\* when rank 0 reports none, and the assertion that the others agree with it
FeatAllGatherLens ==
    /\ AllAt("feat_lens")
    /\ LET all_lens == allgather_sizes([r \in Workers |-> <<Len(Shape(FeatDataKey(r)))>>])
       IN IF all_lens[1] <= 0
          THEN pc' = [r \in Workers |-> "feat_loop"] /\ error' = error
          ELSE IF \E idx \in 2..world_size : all_lens[idx] \notin {0, all_lens[1]}
          THEN /\ pc' = [r \in Workers |-> "failed"]
               /\ error' = [r \in Workers |-> "AssertionError"]
          ELSE pc' = [r \in Workers |-> "feat_shape"] /\ error' = error
    /\ UNCHANGED <<fixed, ph, edge_vars, node_vars, feat_vars, out_vars>>
    /\ Collective("allgather")
    /\ UNCHANGED argsort

\* line 511: cond = partid_slice == (idx + local_part_id * world_size)
FeatCondNoOffset(partid_slice, idx, local_part_id) ==
    [i \in 1..Len(partid_slice) |-> partid_slice[i] = idx]

FeatCond(partid_slice, idx, local_part_id) ==
    [i \in 1..Len(partid_slice) |-> partid_slice[i] = idx + local_part_id * world_size]

\* lines 510-530: the feature rows and the global ids that worker r
\* addresses to every worker idx in this round
\* lines 518-523: the buffer sent in place of an empty bucket
EmptyBuffer(all_dims_dtype) ==
    LET dim_len == Len(all_dims_dtype) \div world_size
    IN [rows |-> <<>>,
        shape |-> [i \in 1..(dim_len - 1) |-> 0],
        dtype |-> REV_DATA_TYPE_ID(all_dims_dtype[dim_len])]

FeatsPerRank(r, all_dims_dtype) ==
    [i \in 1..world_size |->
        LET cond == FeatCond(fs[r].partid_slice, i - 1, fs[r].local_part_id)
            local_idx == Arange(0, fs[r].chunk_typeid_end - fs[r].chunk_typeid_start)
            picked == Take(ChunkFeatData(r), Compress(local_idx, cond))
        IN IF Len(Compress(local_idx, cond)) = 0
           THEN EmptyBuffer(all_dims_dtype)
           ELSE [rows |-> picked,
                 shape |-> <<Len(picked)>> \o FeatDataKey(r).tail,
                 dtype |-> FeatDataKey(r).dtype]]

\* the global ids bucketed by the owner of the next row's id
GlobalIdPerRankShifted(r) ==
    [i \in 1..world_size |->
        LET cond == FeatCond(fs[r].partid_slice, i - 1, fs[r].local_part_id)
        IN Compress(Arange(fs[r].chunk_gid_start + 1, fs[r].chunk_gid_end + 1), cond)]

GlobalIdPerRank(r) ==
    [i \in 1..world_size |->
        LET cond == FeatCond(fs[r].partid_slice, i - 1, fs[r].local_part_id)
        IN Compress(Arange(fs[r].chunk_gid_start, fs[r].chunk_gid_end), cond)]

\* lines 497-530: the allgather of the chunk shapes and element types, then
\* the buckets of the round
FeatAllGatherShape ==
    /\ AllAt("feat_shape")
    /\ LET all_dims_dtype == allgather_sizes([r \in Workers |->
               <<Len(ChunkFeatData(r))>> \o FeatDataKey(r).tail
                   \o <<DATA_TYPE_ID(FeatDataKey(r).dtype)>>])
       IN fs' = [r \in Workers |-> [fs[r] EXCEPT
                    !.all_dims_dtype = all_dims_dtype,
                    !.feats_per_rank = FeatsPerRank(r, all_dims_dtype),
                    !.global_id_per_rank = GlobalIdPerRank(r)]]
    /\ pc' = [r \in Workers |-> "feat_alltoall"]
    /\ UNCHANGED <<fixed, ph, error, edge_vars, node_vars, rcvd, out_vars>>
    /\ Collective("allgather")
    /\ UNCHANGED argsort

\* lines 538-540: the alltoall of the feature rows
FeatAllToAll ==
    /\ AllAt("feat_alltoall")
    /\ fs' = [r \in Workers |-> [fs[r] EXCEPT !.output_feat_list =
                 alltoallv_cpu([s \in Workers |-> fs[s].feats_per_rank], r)]]
    /\ pc' = [r \in Workers |-> "feat_alltoall_ids"]
    /\ UNCHANGED <<fixed, ph, error, edge_vars, node_vars, rcvd, out_vars>>
    /\ Collective("alltoall")
    /\ UNCHANGED argsort

\* cur[local_feat_key] = received, whatever the key held
AccumulateReplace(cur, local_feat_key, received) ==
    IF local_feat_key \in DOMAIN cur
    THEN [cur EXCEPT ![local_feat_key] = received]
    ELSE cur @@ (local_feat_key :> received)

\* cur[local_feat_key] = torch.cat([cur[local_feat_key], received]), or the
\* first assignment of the key
AccumulatePrepend(cur, local_feat_key, received) ==
    IF local_feat_key \in DOMAIN cur
    THEN [cur EXCEPT ![local_feat_key] = received \o @]
    ELSE cur @@ (local_feat_key :> received)

Accumulate(cur, local_feat_key, received) ==
    IF local_feat_key \in DOMAIN cur
    THEN [cur EXCEPT ![local_feat_key] = @ \o received]
    ELSE cur @@ (local_feat_key :> received)

\* torch.cat along dimension 0.  A tensor of shape (0,) is skipped; the
\* others must agree on every dimension but the first, else RuntimeError.
\* Tensors of different element types are concatenated into one tensor of
\* the promoted type; dtypes keeps the types the rows came in.
TorchCat(ts) ==
    LET kept == SelectSeq(ts, LAMBDA t : t.shape # <<0>>)
        rows == Flatten([i \in 1..Len(kept) |-> kept[i].rows])
    IN IF kept = <<>>
       THEN [err |-> "", rows |-> <<>>, shape |-> <<0>>, dtypes |-> {}]
       ELSE [err |-> IF \E i \in 1..Len(kept) : Tail(kept[i].shape) # Tail(kept[1].shape)
                     THEN "RuntimeError" ELSE "",
             rows |-> rows,
             shape |-> <<Len(rows)>> \o Tail(kept[1].shape),
             dtypes |-> UNION {kept[i].dtypes : i \in 1..Len(kept)}]

\* a received buffer as an operand of torch.cat
Operand(buffer) ==
    [rows |-> buffer.rows, shape |-> buffer.shape,
     dtypes |-> IF buffer.rows = <<>> THEN {} ELSE {buffer.dtype}]

\* lines 554-562: the received buffers stitched together, and then appended
\* to the table of the key if there is one
Stitched(cur, local_feat_key, output_feat_list) ==
    LET received == TorchCat([i \in 1..Len(output_feat_list) |->
                                 Operand(output_feat_list[i])])
        temp == [rows |-> cur.features[local_feat_key],
                 shape |-> cur.meta[local_feat_key].shape,
                 dtypes |-> cur.meta[local_feat_key].dtypes]
    IN IF received.err # "" \/ local_feat_key \notin DOMAIN cur.features
       THEN received
       ELSE [TorchCat(<<temp, received>>) EXCEPT !.rows = received.rows]

\* lines 541-565: the alltoall of the global ids; both received lists are
\* concatenated in sender order and appended under type/feature/local_part_id
FeatAllToAllIds ==
    /\ AllAt("feat_alltoall_ids")
    /\ LET local_feat_key(r) == <<fs[r].key, fs[r].local_part_id>>
           stitched(r) == Stitched(rcvd[r][FeatType(r)], local_feat_key(r),
                                   fs[r].output_feat_list)
       IN /\ rcvd' = [r \in Workers |->
                LET output_id_list ==
                        alltoallv_cpu([s \in Workers |-> fs[s].global_id_per_rank], r)
                    ft == FeatType(r)
                IN IF Len(fs[r].output_feat_list) > 0 /\ stitched(r).err = ""
                   THEN [rcvd[r] EXCEPT ![ft] =
                           [features |-> Accumulate(rcvd[r][ft].features, local_feat_key(r),
                                                    stitched(r).rows),
                            global_ids |-> Accumulate(rcvd[r][ft].global_ids,
                                                      local_feat_key(r),
                                                      Flatten(output_id_list)),
                            meta |-> (local_feat_key(r) :>
                                         [shape |-> stitched(r).shape,
                                          dtypes |-> stitched(r).dtypes])
                                     @@ rcvd[r][ft].meta]]
                   ELSE rcvd[r]]
          /\ pc' = [r \in Workers |->
                      IF stitched(r).err = "" THEN "feat_loop" ELSE "failed"]
          /\ error' = [r \in Workers |->
                      IF stitched(r).err = "" THEN error[r] ELSE stitched(r).err]
    /\ fs' = [r \in Workers |-> [fs[r] EXCEPT !.feats_per_rank = <<>>,
                                              !.global_id_per_rank = <<>>,
                                              !.output_feat_list = <<>>]]
    /\ UNCHANGED <<fixed, ph, edge_vars, node_vars, out_vars>>
    /\ Collective("alltoall")
    /\ UNCHANGED argsort

\* ------------------------------------------------------------- reorder_data
\* a.argsort(): the index arrays (0-based) that put a in ascending order.  The
\* default sort of numpy is not stable, so equal keys may come in any order.
ArgSorts(a) ==
    {[i \in 1..Len(idx) |-> idx[i] - 1] : idx \in
        {q \in Permutations(1..Len(a)) :
            \A i, j \in 1..Len(a) : i < j => a[q[i]] <= a[q[j]]}}

\* whether the worker is in the node half or the edge half of the pipeline
OnNodes(r) ==
    plan[ph[r]] \in {"reorder_node_data", "assign_shuffle_global_nids_nodes",
                     "reorder_node_features"}

\* the per-local-partition columns of the dictionary the worker works on
Local(r) == IF OnNodes(r) THEN node_data[r] ELSE edge_data[r].local

SetLocal(r, cols) ==
    IF OnNodes(r)
    THEN node_data' = [node_data EXCEPT ![r] = cols] /\ edge_data' = edge_data
    ELSE edge_data' = [edge_data EXCEPT ![r].local = cols] /\ node_data' = node_data

\* reorder_data putting the key column alone in the order of its argsort
ReorderDataKeyOnly(r) ==
    /\ pc[r] = "reorder_data"
    /\ LET key == IF OnNodes(r) THEN "ntype_id" ELSE "etype_id"
           data == Local(r)
           keys == {data[l][key] : l \in LocalParts}
       IN \E sorted_idx \in [LocalParts -> UNION {ArgSorts(a) : a \in keys}] :
             /\ \A l \in LocalParts :
                   /\ sorted_idx[l] \in ArgSorts(data[l][key])
                   /\ data[l][key] \in DOMAIN argsort
                        => sorted_idx[l] = argsort[data[l][key]]
                   /\ \A m \in LocalParts :
                        data[m][key] = data[l][key] => sorted_idx[m] = sorted_idx[l]
             /\ SetLocal(r, [l \in LocalParts |->
                               [c \in DOMAIN data[l] |->
                                   IF c = key THEN Take(data[l][c], sorted_idx[l])
                                   ELSE data[l][c]]])
             /\ argsort' = [a \in DOMAIN argsort \cup keys |->
                              IF a \in DOMAIN argsort THEN argsort[a]
                              ELSE sorted_idx[CHOOSE l \in LocalParts : data[l][key] = a]]
    /\ Return(r)
    /\ UNCHANGED <<fixed, error, es, ns, feat_vars, out_vars>>
    /\ UNCHANGED last_collective

\* lines 1019-1028: every column of every local partition is put in the
\* order of one argsort of the key column of that partition.  argsort is
\* called with its default kind, which is not stable: which of the sorting
\* index arrays it returns for an array with equal keys is a property of the
\* build, unknown here but the same at every call with the same array
ReorderData(r) ==
    /\ pc[r] = "reorder_data"
    /\ LET key == IF OnNodes(r) THEN "ntype_id" ELSE "etype_id"
           data == Local(r)
           keys == {data[l][key] : l \in LocalParts}
       IN \E sorted_idx \in [LocalParts -> UNION {ArgSorts(a) : a \in keys}] :
             /\ \A l \in LocalParts :
                   /\ sorted_idx[l] \in ArgSorts(data[l][key])
                   /\ data[l][key] \in DOMAIN argsort
                        => sorted_idx[l] = argsort[data[l][key]]
                   /\ \A m \in LocalParts :
                        data[m][key] = data[l][key] => sorted_idx[m] = sorted_idx[l]
             /\ SetLocal(r, [l \in LocalParts |->
                               [c \in DOMAIN data[l] |-> Take(data[l][c], sorted_idx[l])]])
             /\ argsort' = [a \in DOMAIN argsort \cup keys |->
                              IF a \in DOMAIN argsort THEN argsort[a]
                              ELSE sorted_idx[CHOOSE l \in LocalParts : data[l][key] = a]]
    /\ Return(r)
    /\ UNCHANGED <<fixed, error, es, ns, feat_vars, out_vars>>
    /\ UNCHANGED last_collective

\* ------------------------------------------------- assign_shuffle_global_nids
\* lines 1272 and 1315: the barrier before the ids are assigned
AssignBarrier ==
    /\ AllAt("assign_barrier")
    /\ pc' = [r \in Workers |-> "assign_ids"]
    /\ UNCHANGED <<fixed, ph, error, edge_vars, node_vars, feat_vars, out_vars>>
    /\ Collective("barrier")
    /\ UNCHANGED argsort

\* the prefix sum over the gathered counts, local partition outer and worker
\* inner: the first shuffle-global id of local partition l of worker r
ShuffleStartWorkerOuter(counts, r, l) ==
    SumSeq([i \in 1..r |-> SumSeq([j \in 1..(num_parts \div world_size) |-> counts[i - 1][j - 1]])])
        + SumSeq([j \in 1..l |-> counts[r][j - 1]])

ShuffleStart(counts, r, l) ==
    SumSeq([j \in 1..l |-> SumSeq([i \in 1..world_size |-> counts[i - 1][j - 1]])])
        + SumSeq([i \in 1..r |-> counts[i - 1][l]])

\* assign_shuffle_global_nids_nodes / _edges: the counts of every local
\* partition of every worker are gathered and every worker numbers the rows
\* of its local partitions from its start, in their order
AssignIds ==
    /\ AllAt("assign_ids")
    /\ LET onnodes == OnNodes(0)
           col == IF onnodes THEN "shuffle_global_nid" ELSE "shuffle_global_eid"
           cnt == IF onnodes THEN "global_nid" ELSE "global_eid"
           data == [r \in Workers |-> IF onnodes THEN node_data[r] ELSE edge_data[r].local]
           counts == [r \in Workers |-> [l \in LocalParts |-> Len(data[r][l][cnt])]]
           out == [r \in Workers |-> [l \in LocalParts |->
                     data[r][l] @@ (col :> Arange(ShuffleStart(counts, r, l),
                                         ShuffleStart(counts, r, l) + counts[r][l]))]]
       IN IF onnodes
          THEN /\ node_data' = out
               /\ edge_data' = edge_data
          ELSE /\ edge_data' = [r \in Workers |-> [edge_data[r] EXCEPT !.local = out[r]]]
               /\ node_data' = node_data
    /\ ph' = [r \in Workers |-> ph[r] + 1]
    /\ pc' = [r \in Workers |-> IF ph[r] + 1 > Len(plan) THEN "done"
                                 ELSE Entry(plan[ph[r] + 1])]
    /\ UNCHANGED <<fixed, error, es, ns, feat_vars, out_vars>>
    /\ Collective("allgather")
    /\ UNCHANGED argsort

\* ------------------------------------------- the feature reorder pass
\* lines 1290-1304 (nodes) and 1332-1346 (edges): the received rows of one
\* key, taken in the order of feature_idx
ReorderedFeatures(ids, shuffle, global_ids, features) ==
    LET idx1 == Intersect1d(ids, global_ids).idx1
        shuffle_global_ids == Take(shuffle, idx1)
        feature_idx == CHOOSE x \in ArgSorts(shuffle_global_ids) : TRUE
    IN Take(features, feature_idx)

\* lines 1279-1305 and 1323-1346: for every feature key of the schema and
\* every local partition; the key must have been received
ReorderFeatures(r) ==
    /\ pc[r] = "reorder_features"
    /\ LET ft == IF OnNodes(r) THEN "node_features" ELSE "edge_features"
           idcol == IF OnNodes(r) THEN "global_nid" ELSE "global_eid"
           shcol == IF OnNodes(r) THEN "shuffle_global_nid" ELSE "shuffle_global_eid"
           keys == {<<k, l>> : k \in 1..Len(feature_tids[r][ft]), l \in LocalParts}
       IN IF \E key \in keys : key \notin DOMAIN rcvd[r][ft].global_ids
          THEN Fail(r, "AssertionError") /\ UNCHANGED <<ph, rcvd>>
          ELSE /\ rcvd' = [rcvd EXCEPT ![r][ft].features =
                     [key \in keys |->
                         ReorderedFeatures(Local(r)[key[2]][idcol], Local(r)[key[2]][shcol],
                                           rcvd[r][ft].global_ids[key],
                                           rcvd[r][ft].features[key])]]
               /\ Return(r)
               /\ error' = error
    /\ UNCHANGED <<fixed, edge_vars, node_vars, fs, out_vars>>
    /\ UNCHANGED <<argsort, last_collective>>

\* ----------------------------------------- the write loop and the metadata
\* the partition number passed to create_dgl_object (line 1398), to
\* write_dgl_objects (line 1422) and to create_metadata_json (lines 1435, 1444)
BuildPartId(rank, local_part_id) == rank + local_part_id * world_size

WritePartIdBlock(rank, local_part_id) == rank * (num_parts \div world_size) + local_part_id

WritePartId(rank, local_part_id) == rank + (local_part_id * world_size)

MetaPartId(rank, local_part_id) == local_part_id * world_size + rank

WsInit == [local_part_id |-> 0, built |-> <<>>, output_meta_json |-> <<>>,
           metadata_list |-> <<>>]

NoOutput == [parts |-> <<>>, metadata |-> <<>>]

\* line 1377
WriteBarrier ==
    /\ AllAt("write_barrier")
    /\ pc' = [r \in Workers |-> "write_build"]
    /\ UNCHANGED <<fixed, ph, error, edge_vars, node_vars, feat_vars, out_vars>>
    /\ Collective("barrier")
    /\ UNCHANGED argsort

\* lines 1379-1409: the graph object of the local partition is built
CreateDglObject(r) ==
    /\ pc[r] = "write_build"
    /\ ws' = [ws EXCEPT ![r].built = Append(@,
                 [local_part_id |-> ws[r].local_part_id,
                  part_id |-> BuildPartId(r, ws[r].local_part_id)])]
    /\ pc' = [pc EXCEPT ![r] = "write_objects"]
    /\ UNCHANGED <<fixed, ph, error, edge_vars, node_vars, feat_vars, sink>>
    /\ UNCHANGED <<argsort, last_collective>>

\* lines 1410-1427: the files of the partition are written
WriteDglObjects(r) ==
    /\ pc[r] = "write_objects"
    /\ sink' = [sink EXCEPT !.parts = Append(@,
                   [part_id |-> WritePartId(r, ws[r].local_part_id),
                    rank |-> r, local_part_id |-> ws[r].local_part_id])]
    /\ pc' = [pc EXCEPT ![r] = "write_meta"]
    /\ UNCHANGED <<fixed, ph, error, edge_vars, node_vars, feat_vars, ws>>
    /\ UNCHANGED <<argsort, last_collective>>

\* lines 1431-1446: the metadata fragment of the partition is added under
\* its key; after the last local partition the worker goes to the gather
CreateMetadataJson(r) ==
    /\ pc[r] = "write_meta"
    /\ LET l == ws[r].local_part_id
           json_metadata ==
               [key |-> MetaPartId(r, l), part_id |-> MetaPartId(r, l),
                node_count |-> Len(node_data[r][l].ntype_id),
                edge_count |-> Len(edge_data[r].local[l].etype_id)]
       IN ws' = [ws EXCEPT ![r].output_meta_json =
                        SelectSeq(@, LAMBDA m : m.key # json_metadata.key)
                            \o <<json_metadata>>,
                    ![r].local_part_id = l + 1]
    /\ pc' = [pc EXCEPT ![r] = IF ws[r].local_part_id + 1 < num_parts \div world_size
                                THEN "write_barrier" ELSE "gather_metadata"]
    /\ UNCHANGED <<fixed, ph, error, edge_vars, node_vars, feat_vars, sink>>
    /\ UNCHANGED <<argsort, last_collective>>

\* line 1448
WritesMetadataAnyRank(rank) == TRUE

WritesMetadata(rank) == rank = 0

\* gather_metadata_json (lines 1450, 1461): rank 0 receives, by rank, the
\* fragments of every other worker; its own slot is empty.  The other workers
\* are done with it.
GatherMetadataJson ==
    /\ AllAt("gather_metadata")
    /\ ws' = [r \in Workers |->
                IF r = 0
                THEN [ws[r] EXCEPT !.metadata_list =
                         [i \in 1..world_size |->
                             IF i = 1 THEN <<>> ELSE ws[i - 1].output_meta_json]]
                ELSE ws[r]]
    /\ ph' = [r \in Workers |-> IF WritesMetadata(r) THEN ph[r] ELSE ph[r] + 1]
    /\ pc' = [r \in Workers |->
                IF WritesMetadata(r) THEN "write_metadata"
                ELSE IF ph[r] + 1 > Len(plan) THEN "done" ELSE Entry(plan[ph[r] + 1])]
    /\ UNCHANGED <<fixed, error, edge_vars, node_vars, feat_vars, sink>>
    /\ Collective("gather")
    /\ UNCHANGED argsort

\* lines 1451-1458: rank 0 puts its own fragments first and writes the
\* document, the fragments of the list in order
WriteMetadataJson(r) ==
    /\ pc[r] = "write_metadata"
    /\ LET metadata_list == [ws[r].metadata_list EXCEPT ![1] = ws[r].output_meta_json]
       IN /\ ws' = [ws EXCEPT ![r].metadata_list = metadata_list]
          /\ sink' = [sink EXCEPT !.metadata = Append(@,
                         [rank |-> r, document |-> Flatten(metadata_list)])]
    /\ Return(r)
    /\ UNCHANGED <<fixed, error, edge_vars, node_vars, feat_vars>>
    /\ UNCHANGED <<argsort, last_collective>>

\* ---------------------------------------------------- exchange_graph_data
\* lines 856-866: the call of exchange_features for the node features binds
\* nine positional arguments to the ten parameters of lines 568-579, none of
\* which has a default: the call raises TypeError before the function body
FeatCall(r) ==
    /\ pc[r] = "feat_call"
    /\ Fail(r, "TypeError")
    /\ UNCHANGED <<fixed, ph, edge_vars, node_vars, feat_vars, out_vars>>
    /\ UNCHANGED <<argsort, last_collective>>

\* lines 867, 883, 889 and 895: the barrier after each call
PhaseBarrier ==
    /\ AllAt("phase_barrier")
    /\ ph' = [r \in Workers |-> ph[r] + 1]
    /\ pc' = [r \in Workers |-> IF ph[r] + 1 > Len(plan) THEN "done"
                                 ELSE Entry(plan[ph[r] + 1])]
    /\ UNCHANGED <<fixed, error, edge_vars, node_vars, feat_vars, out_vars>>
    /\ Collective("barrier")
    /\ UNCHANGED argsort

\* ------------------------------------------------------- collective timeout
\* the statements at which a worker waits for all its peers
Collectives ==
    {"edge_barrier_begin", "edge_allgather", "edge_barrier", "edge_alltoall",
     "edge_check", "node_barrier", "feat_barrier", "feat_dims", "feat_lens",
     "feat_shape", "feat_alltoall", "feat_alltoall_ids", "assign_barrier",
     "assign_ids", "write_barrier", "gather_metadata", "phase_barrier"}

\* a worker waits in a collective that some peer will never join: no worker
\* can take a local step and the workers do not stand at the same collective
Stranded(r) ==
    /\ pc[r] \in Collectives
    /\ \A q \in Workers : pc[q] \in Collectives \cup {"failed", "done"}
    /\ \E q \in Workers : pc[q] # pc[r]

\* lines 1546-1551: the process group is created with a timeout; the collective
\* that is never completed ends the waiting worker with a fatal error
CollectiveTimeout(r) ==
    /\ Stranded(r)
    /\ Fail(r, "CollectiveTimeout")
    /\ UNCHANGED <<fixed, ph, edge_vars, node_vars, feat_vars, out_vars>>
    /\ UNCHANGED <<argsort, last_collective>>

\* ------------------------------------------------------------------ inputs
Configs == {<<w, w * k>> : w \in 1..MaxWorldSize, k \in 1..MaxLocalParts}

\* what the reader hands to worker r: its chunk of the edge list, with the
\* synthesized type-edge ids and global edge ids (one edge type)
RawEdges(pairs, first_eid) ==
    [global_src_id |-> [i \in 1..Len(pairs) |-> pairs[i][1]],
     global_dst_id |-> [i \in 1..Len(pairs) |-> pairs[i][2]],
     global_type_eid |-> [i \in 1..Len(pairs) |-> first_eid + i - 1],
     etype_id |-> [i \in 1..Len(pairs) |-> 0],
     global_eid |-> [i \in 1..Len(pairs) |-> first_eid + i - 1]]

EdgeLists(W) ==
    {f \in [0..(W - 1) -> BoundedSeq(Nodes \X Nodes, MaxEdges)] :
        SumSeq([i \in 1..W |-> Len(f[i - 1])]) <= MaxEdges}

FirstEid(f, r) == SumSeq([i \in 1..r |-> Len(f[i - 1])])

EsInit ==
    [local_part_id |-> 0, chunk |-> 0, num_chunks |-> 0, LOCAL_CHUNK_SIZE |-> 0,
     all_edges |-> 0, shuffle_edge_total |-> 0, acc |-> NoEdges, input_list |-> <<>>]

InitEdge ==
    /\ \E cfg \in Configs : world_size = cfg[1] /\ num_parts = cfg[2]
    /\ ntype_counts = <<MaxNodes>>
    /\ part \in [Nodes -> 0..(num_parts - 1)]
    /\ plan = <<"exchange_edge_data">>
    /\ ph = [r \in Workers |-> 1]
    /\ pc = [r \in Workers |-> Entry(plan[1])]
    /\ error = [r \in Workers |-> ""]
    /\ \E f \in EdgeLists(world_size) :
          edge_files = [r \in Workers |-> RawEdges(f[r], FirstEid(f, r))]
    /\ edge_data = [r \in Workers |-> [plain |-> <<edge_files[r]>>, local |-> <<>>]]
    /\ es = [r \in Workers |-> EsInit]
    /\ node_data = [r \in Workers |-> <<>>]
    /\ ns = [r \in Workers |-> NsInit]
    /\ feat_mesg_size = 0
    /\ feature_data = [r \in Workers |-> [k \in FeatKinds |-> <<>>]]
    /\ feature_tids = [r \in Workers |-> [k \in FeatKinds |-> <<>>]]
    /\ rcvd = [r \in Workers |-> [k \in FeatKinds |-> NoFeatures]]
    /\ fs = [r \in Workers |-> FsInit]
    /\ ws = [r \in Workers |-> WsInit]
    /\ sink = NoOutput
    /\ argsort = <<>>
    /\ partitions_dir = PartitionFiles(part)
    /\ test = TestNotRun
    /\ last_collective = [r \in Workers |-> "none"]

NextEdge ==
    \/ EdgeBarrierBegin
    \/ EdgeAllGather
    \/ \E r \in Workers : EdgePrepare(r)
    \/ EdgeBarrier
    \/ EdgeAllToAll
    \/ EdgeCheck
    \/ \E r \in Workers : EdgeCleanup(r)

SpecEdge == InitEdge /\ [][NextEdge]_vars

\* the inputs of the edge shuffle with the nodes dealt to the partitions in
\* turn: the rounds do not depend on where the nodes live, so one assignment
\* per configuration is explored
InitEdgeLive == InitEdge /\ part = [n \in Nodes |-> n % num_parts]

\* the edge shuffle with every worker a running process: a worker that can
\* take a step takes one, and a collective that all workers have entered
\* completes
SpecEdgeLive == InitEdgeLive /\ [][NextEdge]_vars /\ WF_vars(NextEdge)

\* the edge list of a graph with two edge types: the edges of type 0 come
\* first, the global edge id is the position in the list and the type-edge id
\* the position among the edges of the type
TypedEdgeLists ==
    {e \in BoundedSeq(Nodes \X Nodes \X {0, 1}, MaxEdges) :
        \A i, j \in 1..Len(e) : i < j => e[i][3] <= e[j][3]}

\* the records lo+1..hi of the list e, as their reader hands them over
TypedEdges(e, lo, hi) ==
    LET first_of_type == [t \in {0, 1} |->
                             Cardinality({i \in 1..Len(e) : e[i][3] < t})]
    IN [global_src_id |-> [i \in 1..(hi - lo) |-> e[lo + i][1]],
        global_dst_id |-> [i \in 1..(hi - lo) |-> e[lo + i][2]],
        global_type_eid |-> [i \in 1..(hi - lo) |->
                                lo + i - 1 - first_of_type[e[lo + i][3]]],
        etype_id |-> [i \in 1..(hi - lo) |-> e[lo + i][3]],
        global_eid |-> [i \in 1..(hi - lo) |-> lo + i - 1]]

\* the runs of the edge shuffle on two workers that have read the two halves
\* of a typed edge list, split anywhere
InitCarry ==
    /\ world_size = MaxWorldSize
    /\ \E k \in 1..MaxLocalParts : num_parts = world_size * k
    /\ ntype_counts = <<MaxNodes>>
    /\ part \in [Nodes -> 0..(num_parts - 1)]
    /\ plan = <<"exchange_edge_data">>
    /\ ph = [r \in Workers |-> 1]
    /\ pc = [r \in Workers |-> Entry(plan[1])]
    /\ error = [r \in Workers |-> ""]
    /\ \E e \in TypedEdgeLists : \E cut \in 0..Len(e) :
          edge_files = [r \in Workers |->
                           IF r = 0 THEN TypedEdges(e, 0, cut)
                           ELSE IF r = 1 THEN TypedEdges(e, cut, Len(e))
                           ELSE NoEdges]
    /\ edge_data = [r \in Workers |-> [plain |-> <<edge_files[r]>>, local |-> <<>>]]
    /\ es = [r \in Workers |-> EsInit]
    /\ node_data = [r \in Workers |-> <<>>]
    /\ ns = [r \in Workers |-> NsInit]
    /\ feat_mesg_size = 0
    /\ feature_data = [r \in Workers |-> [k \in FeatKinds |-> <<>>]]
    /\ feature_tids = [r \in Workers |-> [k \in FeatKinds |-> <<>>]]
    /\ rcvd = [r \in Workers |-> [k \in FeatKinds |-> NoFeatures]]
    /\ fs = [r \in Workers |-> FsInit]
    /\ ws = [r \in Workers |-> WsInit]
    /\ sink = NoOutput
    /\ argsort = <<>>
    /\ partitions_dir = PartitionFiles(part)
    /\ test = TestNotRun
    /\ last_collective = [r \in Workers |-> "none"]

SpecCarry == InitCarry /\ [][NextEdge]_vars

\* the stray runs: exchange_edge_data alone, with an assignment that may give
\* a node the partition id num_parts, which no worker owns, and with a number
\* of partitions that need not be a multiple of the number of workers, so that
\* the partitions from (num_parts div world_size) * world_size on have no
\* local partition on any worker
StrayConfigs ==
    {cfg \in (1..MaxWorldSize) \X (1..(MaxWorldSize * MaxLocalParts)) : cfg[2] >= cfg[1]}

InitStray ==
    /\ \E cfg \in StrayConfigs : world_size = cfg[1] /\ num_parts = cfg[2]
    /\ ntype_counts = <<MaxNodes>>
    /\ part \in [Nodes -> 0..num_parts]
    /\ plan = <<"exchange_edge_data">>
    /\ ph = [r \in Workers |-> 1]
    /\ pc = [r \in Workers |-> Entry(plan[1])]
    /\ error = [r \in Workers |-> ""]
    /\ \E f \in EdgeLists(world_size) :
          edge_files = [r \in Workers |-> RawEdges(f[r], FirstEid(f, r))]
    /\ edge_data = [r \in Workers |-> [plain |-> <<edge_files[r]>>, local |-> <<>>]]
    /\ es = [r \in Workers |-> EsInit]
    /\ node_data = [r \in Workers |-> <<>>]
    /\ ns = [r \in Workers |-> NsInit]
    /\ feat_mesg_size = 0
    /\ feature_data = [r \in Workers |-> [k \in FeatKinds |-> <<>>]]
    /\ feature_tids = [r \in Workers |-> [k \in FeatKinds |-> <<>>]]
    /\ rcvd = [r \in Workers |-> [k \in FeatKinds |-> NoFeatures]]
    /\ fs = [r \in Workers |-> FsInit]
    /\ ws = [r \in Workers |-> WsInit]
    /\ sink = NoOutput
    /\ argsort = <<>>
    /\ partitions_dir = PartitionFiles(part)
    /\ test = TestNotRun
    /\ last_collective = [r \in Workers |-> "none"]

SpecStray == InitStray /\ [][NextEdge]_vars

\* the schemas of the node-data runs: up to MaxNtypes node types of up to
\* MaxTypeNodes nodes each
NtypeCounts == UNION {[1..n -> 0..MaxTypeNodes] : n \in 1..MaxNtypes}

InitNode ==
    /\ \E cfg \in Configs : world_size = cfg[1] /\ num_parts = cfg[2]
    /\ ntype_counts \in NtypeCounts
    /\ part \in [Nodes -> 0..(num_parts - 1)]
    /\ plan = <<"gen_node_data">>
    /\ ph = [r \in Workers |-> 1]
    /\ pc = [r \in Workers |-> Entry(plan[1])]
    /\ error = [r \in Workers |-> ""]
    /\ edge_files = [r \in Workers |-> NoEdges]
    /\ edge_data = [r \in Workers |-> [plain |-> <<edge_files[r]>>, local |-> <<>>]]
    /\ es = [r \in Workers |-> EsInit]
    /\ node_data = [r \in Workers |-> [l \in LocalParts |-> NoNodes]]
    /\ ns = [r \in Workers |-> NsInit]
    /\ feat_mesg_size = 0
    /\ feature_data = [r \in Workers |-> [k \in FeatKinds |-> <<>>]]
    /\ feature_tids = [r \in Workers |-> [k \in FeatKinds |-> <<>>]]
    /\ rcvd = [r \in Workers |-> [k \in FeatKinds |-> NoFeatures]]
    /\ fs = [r \in Workers |-> FsInit]
    /\ ws = [r \in Workers |-> WsInit]
    /\ sink = NoOutput
    /\ argsort = <<>>
    /\ partitions_dir = PartitionFiles(part)
    /\ test = TestNotRun
    /\ last_collective = [r \in Workers |-> "none"]

NextNode ==
    \/ NodeBarrier
    \/ \E r \in Workers : NodeGen(r)

SpecNode == InitNode /\ [][NextNode]_vars

\* the feature runs: one feature key of one type.  Every worker has read a
\* contiguous slice of the type ids, in rank order; the row of type id i is
\* tagged with the global id of the entity it describes.  A worker whose
\* slice is empty holds no tensor or a tensor of zero rows.
FeatTails == {<<>>}
FeatDataTypes == {"int16"}
MesgSizes == 0..MaxMesgSize

Holdings(rows) ==
    (IF rows = <<>> THEN {None} ELSE {})
        \cup {Tensor(rows, tail, dtype) : tail \in FeatTails, dtype \in FeatDataTypes}

\* the ways to cut n rows into W slices of at most MaxFeatRows rows
Splits(n, W) ==
    {c \in [0..(W - 1) -> 0..MaxFeatRows] : SumSeq([i \in 1..W |-> c[i - 1]]) = n}

SliceStart(c, r) == SumSeq([i \in 1..r |-> c[i - 1]])

NodeFeatPlan ==
    <<"exchange_node_features", "gen_node_data", "reorder_node_data",
      "assign_shuffle_global_nids_nodes", "reorder_node_features">>
EdgeFeatPlan ==
    <<"exchange_edge_features", "exchange_edge_data", "reorder_edge_data",
      "assign_shuffle_global_nids_edges", "reorder_edge_features">>

InitNodeFeat ==
    /\ \E cfg \in Configs : world_size = cfg[1] /\ num_parts = cfg[2]
    /\ \E n \in 0..(world_size * MaxFeatRows) : ntype_counts = <<n>>
    /\ part \in [Nodes -> 0..(num_parts - 1)]
    /\ plan = NodeFeatPlan
    /\ edge_files = [r \in Workers |-> NoEdges]
    /\ feat_mesg_size \in MesgSizes
    /\ \E c \in Splits(NumNodes, world_size) :
          /\ feature_tids = [r \in Workers |->
                [node_features |-> <<[type |-> 0,
                                      tids |-> <<SliceStart(c, r), SliceStart(c, r) + c[r]>>]>>,
                 edge_features |-> <<>>]]
          /\ \E h \in [Workers -> UNION {Holdings(Arange(a, b)) : a, b \in 0..NumNodes}] :
                /\ \A r \in Workers :
                      h[r] \in Holdings(Arange(SliceStart(c, r), SliceStart(c, r) + c[r]))
                /\ feature_data = [r \in Workers |->
                      [node_features |-> <<h[r]>>, edge_features |-> <<>>]]
    /\ node_data = [r \in Workers |-> [l \in LocalParts |-> NoNodes]]

InitEdgeFeat ==
    /\ \E cfg \in Configs : world_size = cfg[1] /\ num_parts = cfg[2]
    /\ ntype_counts = <<MaxNodes>>
    /\ part \in [Nodes -> 0..(num_parts - 1)]
    /\ plan = EdgeFeatPlan
    /\ \E f \in EdgeLists(world_size) :
          /\ SumSeq([i \in 1..world_size |-> Len(f[i - 1])]) <= MaxFeatEdges
          /\ edge_files = [r \in Workers |-> RawEdges(f[r], FirstEid(f, r))]
    /\ feat_mesg_size \in MesgSizes
    /\ feature_tids = [r \in Workers |->
          [node_features |-> <<>>,
           edge_features |-> <<[type |-> 0,
                                tids |-> <<IF edge_files[r].global_eid = <<>> THEN 0
                                           ELSE edge_files[r].global_eid[1],
                                           (IF edge_files[r].global_eid = <<>> THEN 0
                                            ELSE edge_files[r].global_eid[1])
                                               + Len(edge_files[r].global_eid)>>]>>]]
    /\ \E h \in [Workers -> UNION {Holdings(Arange(a, b)) : a, b \in 0..MaxFeatEdges}] :
          /\ \A r \in Workers : h[r] \in Holdings(edge_files[r].global_eid)
          /\ feature_data = [r \in Workers |->
                [node_features |-> <<>>, edge_features |-> <<h[r]>>]]
    /\ node_data = [r \in Workers |-> <<>>]

InitFeat ==
    /\ InitNodeFeat \/ InitEdgeFeat
    /\ ph = [r \in Workers |-> 1]
    /\ pc = [r \in Workers |-> Entry(plan[1])]
    /\ error = [r \in Workers |-> ""]
    /\ edge_data = [r \in Workers |-> [plain |-> <<edge_files[r]>>, local |-> <<>>]]
    /\ es = [r \in Workers |-> EsInit]
    /\ ns = [r \in Workers |-> NsInit]
    /\ rcvd = [r \in Workers |-> [k \in FeatKinds |-> NoFeatures]]
    /\ fs = [r \in Workers |-> FsInit]
    /\ ws = [r \in Workers |-> WsInit]
    /\ sink = NoOutput
    /\ argsort = <<>>
    /\ partitions_dir = PartitionFiles(part)
    /\ test = TestNotRun
    /\ last_collective = [r \in Workers |-> "none"]

NextFeat ==
    \/ \E r \in Workers : FeatBegin(r)
    \/ FeatBarrier
    \/ FeatAllGatherDims
    \/ \E r \in Workers : FeatChunks(r)
    \/ FeatAllGatherLens
    \/ FeatAllGatherShape
    \/ FeatAllToAll
    \/ FeatAllToAllIds
    \/ \E r \in Workers : FeatLoop(r)
    \/ \E r \in Workers : CollectiveTimeout(r)
    \/ NextEdge
    \/ NextNode
    \/ \E r \in Workers : ReorderData(r)
    \/ AssignBarrier
    \/ AssignIds
    \/ \E r \in Workers : ReorderFeatures(r)

SpecFeat == InitFeat /\ [][NextFeat]_vars

\* the shape runs: exchange_features alone, on one node feature whose tensor
\* has, on every worker, its own number of rows, trailing dimensions and
\* element type
ShapeTails == {<<>>, <<3>>, <<1, 3>>}
ShapeDataTypes == {"int8", "int16"}

ShapeHoldings(rows) ==
    (IF rows = <<>> THEN {None} ELSE {})
        \cup {Tensor(rows, tail, dtype) : tail \in ShapeTails, dtype \in ShapeDataTypes}

InitShape ==
    /\ world_size = MaxWorldSize /\ num_parts = world_size
    /\ \E n \in 0..MaxShapeNodes : ntype_counts = <<n>>
    /\ part \in [Nodes -> 0..(num_parts - 1)]
    /\ plan = <<"exchange_node_features">>
    /\ edge_files = [r \in Workers |-> NoEdges]
    /\ feat_mesg_size \in MesgSizes
    /\ \E c \in [Workers -> 0..MaxShapeRows] :
          /\ SumSeq([i \in 1..world_size |-> c[i - 1]]) = NumNodes
          /\ feature_tids = [r \in Workers |->
                [node_features |-> <<[type |-> 0,
                                      tids |-> <<SliceStart(c, r), SliceStart(c, r) + c[r]>>]>>,
                 edge_features |-> <<>>]]
          /\ \E h \in [Workers -> UNION {ShapeHoldings(Arange(a, b)) : a, b \in 0..NumNodes}] :
                /\ \A r \in Workers :
                      h[r] \in ShapeHoldings(Arange(SliceStart(c, r), SliceStart(c, r) + c[r]))
                /\ feature_data = [r \in Workers |->
                      [node_features |-> <<h[r]>>, edge_features |-> <<>>]]
    /\ node_data = [r \in Workers |-> [l \in LocalParts |-> NoNodes]]
    /\ ph = [r \in Workers |-> 1]
    /\ pc = [r \in Workers |-> Entry(plan[1])]
    /\ error = [r \in Workers |-> ""]
    /\ edge_data = [r \in Workers |-> [plain |-> <<edge_files[r]>>, local |-> <<>>]]
    /\ es = [r \in Workers |-> EsInit]
    /\ ns = [r \in Workers |-> NsInit]
    /\ rcvd = [r \in Workers |-> [k \in FeatKinds |-> NoFeatures]]
    /\ fs = [r \in Workers |-> FsInit]
    /\ ws = [r \in Workers |-> WsInit]
    /\ sink = NoOutput
    /\ argsort = <<>>
    /\ partitions_dir = PartitionFiles(part)
    /\ test = TestNotRun
    /\ last_collective = [r \in Workers |-> "none"]

NextShape ==
    \/ \E r \in Workers : FeatBegin(r)
    \/ FeatBarrier
    \/ FeatAllGatherDims
    \/ \E r \in Workers : FeatChunks(r)
    \/ FeatAllGatherLens
    \/ FeatAllGatherShape
    \/ FeatAllToAll
    \/ FeatAllToAllIds
    \/ \E r \in Workers : FeatLoop(r)
    \/ \E r \in Workers : CollectiveTimeout(r)

SpecShape == InitShape /\ [][NextShape]_vars

\* the residency runs: exchange_features alone, on one edge feature.  Every
\* worker has read some edges and the feature rows of some range of edge ids,
\* which need not be the ids of the edges it has read
InitResident ==
    /\ \E cfg \in Configs : world_size = cfg[1] /\ num_parts = cfg[2]
    /\ ntype_counts = <<MaxNodes>>
    /\ part \in [Nodes -> 0..(num_parts - 1)]
    /\ plan = <<"exchange_edge_features">>
    /\ \E f \in EdgeLists(world_size) :
          /\ SumSeq([i \in 1..world_size |-> Len(f[i - 1])]) <= MaxFeatEdges
          /\ edge_files = [r \in Workers |-> RawEdges(f[r], FirstEid(f, r))]
    /\ feat_mesg_size \in MesgSizes
    /\ \E lo, hi \in [Workers -> 0..MaxFeatEdges] :
          /\ \A r \in Workers : lo[r] < hi[r]
          /\ feature_tids = [r \in Workers |->
                [node_features |-> <<>>,
                 edge_features |-> <<[type |-> 0, tids |-> <<lo[r], hi[r]>>]>>]]
          /\ feature_data = [r \in Workers |->
                [node_features |-> <<>>,
                 edge_features |-> <<Tensor(Arange(lo[r], hi[r]), <<>>, "int16")>>]]
    /\ node_data = [r \in Workers |-> <<>>]
    /\ ph = [r \in Workers |-> 1]
    /\ pc = [r \in Workers |-> Entry(plan[1])]
    /\ error = [r \in Workers |-> ""]
    /\ edge_data = [r \in Workers |-> [plain |-> <<edge_files[r]>>, local |-> <<>>]]
    /\ es = [r \in Workers |-> EsInit]
    /\ ns = [r \in Workers |-> NsInit]
    /\ rcvd = [r \in Workers |-> [k \in FeatKinds |-> NoFeatures]]
    /\ fs = [r \in Workers |-> FsInit]
    /\ ws = [r \in Workers |-> WsInit]
    /\ sink = NoOutput
    /\ argsort = <<>>
    /\ partitions_dir = PartitionFiles(part)
    /\ test = TestNotRun
    /\ last_collective = [r \in Workers |-> "none"]

SpecResident == InitResident /\ [][NextShape]_vars

\* the slicing runs: exchange_features alone, on one 1-D node feature of which
\* every worker has read 1..MaxSliceRows rows, so that a worker's row count
\* need not be a multiple of its rows per chunk; the nodes are dealt to the
\* partitions in stripes of 1, 2 or 3
InitSlices ==
    /\ world_size = MaxWorldSize /\ num_parts = world_size
    /\ plan = <<"exchange_node_features">>
    /\ edge_files = [r \in Workers |-> NoEdges]
    /\ feat_mesg_size \in MesgSizes
    /\ \E c \in [Workers -> 1..MaxSliceRows] :
          /\ ntype_counts = <<SumSeq([i \in 1..world_size |-> c[i - 1]])>>
          /\ feature_tids = [r \in Workers |->
                [node_features |-> <<[type |-> 0,
                                      tids |-> <<SliceStart(c, r), SliceStart(c, r) + c[r]>>]>>,
                 edge_features |-> <<>>]]
          /\ \E dtype \in [Workers -> ShapeDataTypes] :
                feature_data = [r \in Workers |->
                   [node_features |->
                       <<Tensor(Arange(SliceStart(c, r), SliceStart(c, r) + c[r]),
                                <<>>, dtype[r])>>,
                    edge_features |-> <<>>]]
    /\ \E stripe \in 1..3 : part = [n \in Nodes |-> (n \div stripe) % num_parts]
    /\ node_data = [r \in Workers |-> [l \in LocalParts |-> NoNodes]]
    /\ ph = [r \in Workers |-> 1]
    /\ pc = [r \in Workers |-> Entry(plan[1])]
    /\ error = [r \in Workers |-> ""]
    /\ edge_data = [r \in Workers |-> [plain |-> <<edge_files[r]>>, local |-> <<>>]]
    /\ es = [r \in Workers |-> EsInit]
    /\ ns = [r \in Workers |-> NsInit]
    /\ rcvd = [r \in Workers |-> [k \in FeatKinds |-> NoFeatures]]
    /\ fs = [r \in Workers |-> FsInit]
    /\ ws = [r \in Workers |-> WsInit]
    /\ sink = NoOutput
    /\ argsort = <<>>
    /\ partitions_dir = PartitionFiles(part)
    /\ test = TestNotRun
    /\ last_collective = [r \in Workers |-> "none"]

SpecSlices == InitSlices /\ [][NextShape]_vars

\* the runs of the write loop: the node table of every local partition as
\* gen_node_data leaves it for one node type, and no edges
InitWrite ==
    /\ \E cfg \in Configs : world_size = cfg[1] /\ num_parts = cfg[2]
    /\ ntype_counts = <<MaxNodes>>
    /\ part \in [Nodes -> 0..(num_parts - 1)]
    /\ plan = <<"write_partitions">>
    /\ ph = [r \in Workers |-> 1]
    /\ pc = [r \in Workers |-> Entry(plan[1])]
    /\ error = [r \in Workers |-> ""]
    /\ edge_files = [r \in Workers |-> NoEdges]
    /\ edge_data = [r \in Workers |-> [plain |-> <<>>, local |-> [l \in LocalParts |-> NoEdges]]]
    /\ es = [r \in Workers |-> EsInit]
    /\ node_data = [r \in Workers |-> [l \in LocalParts |-> OwnNodes(r, 0, l)]]
    /\ ns = [r \in Workers |-> NsInit]
    /\ feat_mesg_size = 0
    /\ feature_data = [r \in Workers |-> [k \in FeatKinds |-> <<>>]]
    /\ feature_tids = [r \in Workers |-> [k \in FeatKinds |-> <<>>]]
    /\ rcvd = [r \in Workers |-> [k \in FeatKinds |-> NoFeatures]]
    /\ fs = [r \in Workers |-> FsInit]
    /\ ws = [r \in Workers |-> WsInit]
    /\ sink = NoOutput
    /\ argsort = <<>>
    /\ partitions_dir = PartitionFiles(part)
    /\ test = TestNotRun
    /\ last_collective = [r \in Workers |-> "none"]

NextWrite ==
    \/ WriteBarrier
    \/ \E r \in Workers : CreateDglObject(r)
    \/ \E r \in Workers : WriteDglObjects(r)
    \/ \E r \in Workers : CreateMetadataJson(r)
    \/ GatherMetadataJson
    \/ \E r \in Workers : WriteMetadataJson(r)

SpecWrite == InitWrite /\ [][NextWrite]_vars

\* the pipeline runs: the calls of exchange_graph_data (lines 856-895) and of
\* gen_dist_partitions after it (lines 1264-1461), in their order in the code.
\* lookup_shuffle_global_nids_edges (line 1351) changes no order and is left
\* out.  PipelineSpecOrder is the order in which the shuffles all precede
\* the synthesis of the local nodes.
PipelineSpecOrder ==
    <<"exchange_node_features", "barrier", "exchange_edge_features", "barrier",
      "exchange_edge_data", "barrier", "gen_node_data", "barrier",
      "reorder_node_data", "assign_shuffle_global_nids_nodes", "reorder_node_features",
      "reorder_edge_data", "assign_shuffle_global_nids_edges", "reorder_edge_features",
      "write_partitions">>

\* the order with the edge shuffle ahead of the edge-feature shuffle
PipelineEdgesFirst ==
    <<"exchange_node_features", "barrier", "exchange_edge_data", "barrier",
      "exchange_edge_features", "barrier", "gen_node_data", "barrier",
      "reorder_node_data", "assign_shuffle_global_nids_nodes", "reorder_node_features",
      "reorder_edge_data", "assign_shuffle_global_nids_edges", "reorder_edge_features",
      "write_partitions">>

Pipeline ==
    <<"exchange_node_features", "barrier", "exchange_edge_features", "barrier",
      "gen_node_data", "barrier", "exchange_edge_data", "barrier",
      "reorder_node_data", "assign_shuffle_global_nids_nodes", "reorder_node_features",
      "reorder_edge_data", "assign_shuffle_global_nids_edges", "reorder_edge_features",
      "write_partitions">>

\* the pipeline with its first call as it is written at line 856
PipelineAsWritten == <<"exchange_features_line_856">> \o Tail(Pipeline)

\* every worker has read one edge, the feature row of that edge, and the
\* feature row of one node; the pipeline is run as written and with the
\* first call given its full argument list
InitPipe ==
    /\ world_size = MaxWorldSize /\ num_parts = world_size
    /\ ntype_counts = <<world_size>>
    /\ part \in [Nodes -> 0..(num_parts - 1)]
    /\ plan \in {Pipeline, PipelineAsWritten}
    /\ \E f \in EdgeLists(world_size) :
          /\ \A r \in Workers : Len(f[r]) = 1
          /\ edge_files = [r \in Workers |-> RawEdges(f[r], FirstEid(f, r))]
    /\ feat_mesg_size \in MesgSizes
    /\ feature_tids = [r \in Workers |->
          [node_features |-> <<[type |-> 0, tids |-> <<r, r + 1>>]>>,
           edge_features |-> <<[type |-> 0, tids |-> <<r, r + 1>>]>>]]
    /\ feature_data = [r \in Workers |->
          [node_features |-> <<Tensor(<<r>>, <<>>, "int16")>>,
           edge_features |-> <<Tensor(edge_files[r].global_eid, <<>>, "int16")>>]]
    /\ node_data = [r \in Workers |-> [l \in LocalParts |-> NoNodes]]
    /\ ph = [r \in Workers |-> 1]
    /\ pc = [r \in Workers |-> Entry(plan[1])]
    /\ error = [r \in Workers |-> ""]
    /\ edge_data = [r \in Workers |-> [plain |-> <<edge_files[r]>>, local |-> <<>>]]
    /\ es = [r \in Workers |-> EsInit]
    /\ ns = [r \in Workers |-> NsInit]
    /\ rcvd = [r \in Workers |-> [k \in FeatKinds |-> NoFeatures]]
    /\ fs = [r \in Workers |-> FsInit]
    /\ ws = [r \in Workers |-> WsInit]
    /\ sink = NoOutput
    /\ argsort = <<>>
    /\ partitions_dir = PartitionFiles(part)
    /\ test = TestNotRun
    /\ last_collective = [r \in Workers |-> "none"]

NextPipe ==
    \/ \E r \in Workers : FeatCall(r)
    \/ PhaseBarrier
    \/ \E r \in Workers : FeatBegin(r)
    \/ FeatBarrier
    \/ FeatAllGatherDims
    \/ \E r \in Workers : FeatChunks(r)
    \/ FeatAllGatherLens
    \/ FeatAllGatherShape
    \/ FeatAllToAll
    \/ FeatAllToAllIds
    \/ \E r \in Workers : FeatLoop(r)
    \/ NextEdge
    \/ NextNode
    \/ \E r \in Workers : ReorderData(r)
    \/ AssignBarrier
    \/ AssignIds
    \/ \E r \in Workers : ReorderFeatures(r)
    \/ NextWrite

SpecPipe == InitPipe /\ [][NextPipe]_vars

\* the order runs: the node-feature shuffle and then the edge shuffle of two
\* workers with one local partition each.  Every worker has read the feature
\* rows of two nodes, which a message cap sends in two rounds; worker 0 has
\* read three edges and worker 1 one edge, so the edge shuffle has two rounds
\* and both workers send in the first
OrderEdgeCounts == <<3, 1>>

InitOrder ==
    /\ world_size = 2 /\ num_parts = 2
    /\ ntype_counts = <<4>>
    /\ part \in [Nodes -> 0..(num_parts - 1)]
    /\ plan = <<"exchange_node_features", "exchange_edge_data">>
    /\ \E f \in [Workers -> BoundedSeq({0} \X Nodes, MaxSeq(OrderEdgeCounts))] :
          /\ \A r \in Workers : Len(f[r]) = OrderEdgeCounts[r + 1]
          /\ edge_files = [r \in Workers |-> RawEdges(f[r], FirstEid(f, r))]
    /\ feat_mesg_size \in MesgSizes
    /\ feature_tids = [r \in Workers |->
          [node_features |-> <<[type |-> 0, tids |-> <<2 * r, 2 * r + 2>>]>>,
           edge_features |-> <<>>]]
    /\ feature_data = [r \in Workers |->
          [node_features |-> <<Tensor(Arange(2 * r, 2 * r + 2), <<>>, "int16")>>,
           edge_features |-> <<>>]]
    /\ node_data = [r \in Workers |-> [l \in LocalParts |-> NoNodes]]
    /\ ph = [r \in Workers |-> 1]
    /\ pc = [r \in Workers |-> Entry(plan[1])]
    /\ error = [r \in Workers |-> ""]
    /\ edge_data = [r \in Workers |-> [plain |-> <<edge_files[r]>>, local |-> <<>>]]
    /\ es = [r \in Workers |-> EsInit]
    /\ ns = [r \in Workers |-> NsInit]
    /\ rcvd = [r \in Workers |-> [k \in FeatKinds |-> NoFeatures]]
    /\ fs = [r \in Workers |-> FsInit]
    /\ ws = [r \in Workers |-> WsInit]
    /\ sink = NoOutput
    /\ argsort = <<>>
    /\ partitions_dir = PartitionFiles(part)
    /\ test = TestNotRun
    /\ last_collective = [r \in Workers |-> "none"]

NextOrder ==
    \/ \E r \in Workers : FeatBegin(r)
    \/ FeatBarrier
    \/ FeatAllGatherDims
    \/ \E r \in Workers : FeatChunks(r)
    \/ FeatAllGatherLens
    \/ FeatAllGatherShape
    \/ FeatAllToAll
    \/ FeatAllToAllIds
    \/ \E r \in Workers : FeatLoop(r)
    \/ NextEdge

SpecOrder == InitOrder /\ [][NextOrder]_vars

\* the sort runs: the edge shuffle of the order runs (three edges read by
\* worker 0 and one by worker 1, two rounds), then reorder_data on the edges
\* and the assignment of the shuffle-global edge ids
InitSort ==
    /\ world_size = 2 /\ num_parts = 2
    /\ ntype_counts = <<MaxNodes>>
    /\ part \in [Nodes -> 0..(num_parts - 1)]
    /\ plan = <<"exchange_edge_data", "reorder_edge_data",
                "assign_shuffle_global_nids_edges">>
    /\ \E f \in [Workers -> BoundedSeq(Nodes \X Nodes, MaxSeq(OrderEdgeCounts))] :
          /\ \A r \in Workers : Len(f[r]) = OrderEdgeCounts[r + 1]
          /\ edge_files = [r \in Workers |-> RawEdges(f[r], FirstEid(f, r))]
    /\ feat_mesg_size = 0
    /\ feature_tids = [r \in Workers |-> [k \in FeatKinds |-> <<>>]]
    /\ feature_data = [r \in Workers |-> [k \in FeatKinds |-> <<>>]]
    /\ node_data = [r \in Workers |-> <<>>]
    /\ ph = [r \in Workers |-> 1]
    /\ pc = [r \in Workers |-> Entry(plan[1])]
    /\ error = [r \in Workers |-> ""]
    /\ edge_data = [r \in Workers |-> [plain |-> <<edge_files[r]>>, local |-> <<>>]]
    /\ es = [r \in Workers |-> EsInit]
    /\ ns = [r \in Workers |-> NsInit]
    /\ rcvd = [r \in Workers |-> [k \in FeatKinds |-> NoFeatures]]
    /\ fs = [r \in Workers |-> FsInit]
    /\ ws = [r \in Workers |-> WsInit]
    /\ sink = NoOutput
    /\ argsort = <<>>
    /\ partitions_dir = PartitionFiles(part)
    /\ test = TestNotRun
    /\ last_collective = [r \in Workers |-> "none"]

NextSort ==
    \/ NextEdge
    \/ \E r \in Workers : ReorderData(r)
    \/ AssignBarrier
    \/ AssignIds

SpecSort == InitSort /\ [][NextSort]_vars

\* the reorder runs: two workers with two local partitions each; worker 0 has
\* read the first three and worker 1 the last of four edges of two edge types
\* (two rounds of the edge shuffle, in which the rows of a partition can arrive
\* out of the order of their types), then reorder_data on the edges and the
\* assignment of the shuffle-global edge ids
InitReorder ==
    /\ world_size = 2 /\ num_parts = world_size * MaxLocalParts
    /\ ntype_counts = <<MaxNodes>>
    /\ part \in [Nodes -> 0..(num_parts - 1)]
    /\ plan = <<"exchange_edge_data", "reorder_edge_data",
                "assign_shuffle_global_nids_edges">>
    /\ \E e \in [1..SumSeq(OrderEdgeCounts) -> {0} \X Nodes \X {0, 1}] :
          /\ \A i, j \in 1..Len(e) : i < j => e[i][3] <= e[j][3]
          /\ edge_files = [r \in Workers |->
                              TypedEdges(e, FirstEid([w \in Workers |-> [i \in 1..OrderEdgeCounts[w + 1] |-> 0]], r),
                                            FirstEid([w \in Workers |-> [i \in 1..OrderEdgeCounts[w + 1] |-> 0]], r)
                                                + OrderEdgeCounts[r + 1])]
    /\ feat_mesg_size = 0
    /\ feature_tids = [r \in Workers |-> [k \in FeatKinds |-> <<>>]]
    /\ feature_data = [r \in Workers |-> [k \in FeatKinds |-> <<>>]]
    /\ node_data = [r \in Workers |-> <<>>]
    /\ ph = [r \in Workers |-> 1]
    /\ pc = [r \in Workers |-> Entry(plan[1])]
    /\ error = [r \in Workers |-> ""]
    /\ edge_data = [r \in Workers |-> [plain |-> <<edge_files[r]>>, local |-> <<>>]]
    /\ es = [r \in Workers |-> EsInit]
    /\ ns = [r \in Workers |-> NsInit]
    /\ rcvd = [r \in Workers |-> [k \in FeatKinds |-> NoFeatures]]
    /\ fs = [r \in Workers |-> FsInit]
    /\ ws = [r \in Workers |-> WsInit]
    /\ sink = NoOutput
    /\ argsort = <<>>
    /\ partitions_dir = PartitionFiles(part)
    /\ test = TestNotRun
    /\ last_collective = [r \in Workers |-> "none"]

SpecReorder == InitReorder /\ [][NextSort]_vars

\* the runs of the test on the partitioner's output: any schema, and for every
\* node type no file or a file of up to MaxTypeNodes + 1 lines, each an id
\* in 0..num_parts (num_parts itself is out of range); the assignment is what
\* the files resolve to
FileContents ==
    {[exists |-> FALSE, lines |-> <<>>]}
        \cup {[exists |-> TRUE, lines |-> l] : l \in BoundedSeq(0..num_parts, MaxTypeNodes + 1)}

InitPartitions ==
    /\ world_size = 1 /\ num_parts \in 1..MaxLocalParts
    /\ ntype_counts \in NtypeCounts
    /\ partitions_dir \in [1..Len(ntype_counts) -> FileContents]
    /\ part = [n \in Nodes |-> ResolvePartition(partitions_dir, n)]
    /\ test = [at |-> 0, result |-> "running"]
    /\ plan = <<>>
    /\ ph = [r \in Workers |-> 1]
    /\ pc = [r \in Workers |-> "done"]
    /\ error = [r \in Workers |-> ""]
    /\ edge_files = [r \in Workers |-> NoEdges]
    /\ edge_data = [r \in Workers |-> [plain |-> <<edge_files[r]>>, local |-> <<>>]]
    /\ es = [r \in Workers |-> EsInit]
    /\ node_data = [r \in Workers |-> <<>>]
    /\ ns = [r \in Workers |-> NsInit]
    /\ feat_mesg_size = 0
    /\ feature_data = [r \in Workers |-> [k \in FeatKinds |-> <<>>]]
    /\ feature_tids = [r \in Workers |-> [k \in FeatKinds |-> <<>>]]
    /\ rcvd = [r \in Workers |-> [k \in FeatKinds |-> NoFeatures]]
    /\ fs = [r \in Workers |-> FsInit]
    /\ ws = [r \in Workers |-> WsInit]
    /\ sink = NoOutput
    /\ argsort = <<>>
    /\ last_collective = [r \in Workers |-> "none"]

SpecPartitions == InitPartitions /\ [][CheckPartitionFile]_vars

\* the runs with fewer partitions than workers: the whole pipeline, as written
\* and with the first call given its full argument list, on any edge list;
\* every worker has read the feature row of one node and of each of its edges
InitFewParts ==
    /\ world_size = MaxWorldSize /\ num_parts = 1
    /\ ntype_counts = <<world_size>>
    /\ part \in [Nodes -> 0..(num_parts - 1)]
    /\ plan \in {Pipeline, PipelineAsWritten}
    /\ \E f \in EdgeLists(world_size) :
          edge_files = [r \in Workers |-> RawEdges(f[r], FirstEid(f, r))]
    /\ feat_mesg_size \in MesgSizes
    /\ feature_tids = [r \in Workers |->
          [node_features |-> <<[type |-> 0, tids |-> <<r, r + 1>>]>>,
           edge_features |-> <<[type |-> 0,
                                tids |-> <<FirstEid([q \in Workers |-> edge_files[q].global_eid], r),
                                           FirstEid([q \in Workers |-> edge_files[q].global_eid], r)
                                               + Len(edge_files[r].global_eid)>>]>>]]
    /\ feature_data = [r \in Workers |->
          [node_features |-> <<Tensor(<<r>>, <<>>, "int16")>>,
           edge_features |-> <<Tensor(edge_files[r].global_eid, <<>>, "int16")>>]]
    /\ node_data = [r \in Workers |-> [l \in LocalParts |-> NoNodes]]
    /\ ph = [r \in Workers |-> 1]
    /\ pc = [r \in Workers |-> Entry(plan[1])]
    /\ error = [r \in Workers |-> ""]
    /\ edge_data = [r \in Workers |-> [plain |-> <<edge_files[r]>>, local |-> <<>>]]
    /\ es = [r \in Workers |-> EsInit]
    /\ ns = [r \in Workers |-> NsInit]
    /\ rcvd = [r \in Workers |-> [k \in FeatKinds |-> NoFeatures]]
    /\ fs = [r \in Workers |-> FsInit]
    /\ ws = [r \in Workers |-> WsInit]
    /\ sink = NoOutput
    /\ argsort = <<>>
    /\ partitions_dir = PartitionFiles(part)
    /\ test = TestNotRun
    /\ last_collective = [r \in Workers |-> "none"]

\* the statements that a run with no local partition gets to
NextFewParts ==
    \/ \E r \in Workers : FeatCall(r)
    \/ PhaseBarrier
    \/ \E r \in Workers : FeatBegin(r)
    \/ NodeBarrier
    \/ \E r \in Workers : NodeGen(r)
    \/ EdgeBarrierBegin
    \/ EdgeAllGather
    \/ EdgeCheck
    \/ \E r \in Workers : EdgeCleanup(r)
    \/ \E r \in Workers : ReorderData(r)
    \/ AssignBarrier
    \/ AssignIds
    \/ \E r \in Workers : ReorderFeatures(r)
    \/ GatherMetadataJson
    \/ \E r \in Workers : WriteMetadataJson(r)

SpecFewParts == InitFewParts /\ [][NextFewParts]_vars

\* ----------------------------------------------- properties: edge shuffle
\* the rows (src, dst, type_eid, etype_id, eid) of a set of edge columns
Rows(cols) ==
    ColumnStack(cols.global_src_id, cols.global_dst_id, cols.global_type_eid,
                cols.etype_id, cols.global_eid)

Copies(row, rows) == Cardinality({j \in 1..Len(rows) : rows[j] = row})

\* worker r has returned from the function named phase
Returned(r, phase) == \E i \in 1..Len(plan) : plan[i] = phase /\ ph[r] > i

\* every worker has left the rounds of the edge shuffle
EdgeRoundsOver ==
    \A r \in Workers : pc[r] \in {"edge_check", "edge_cleanup"}
                        \/ Returned(r, "exchange_edge_data")

InputRows == UNION {{Rows(edge_files[s])[i] : i \in 1..Len(Rows(edge_files[s]))} : s \in Workers}

\* C1: once the rounds of exchange_edge_data are over, every edge record
\* that a worker read (its global edge id tells duplicates of a (src, dst)
\* pair apart) is in exactly one per-local-partition array of exactly one
\* worker, once: in local partition l of worker r with
\* r + l * world_size = partition_of(global_dst), and in no other array.
C1_EveryEdgeDeliveredOnceToItsOwner ==
    EdgeRoundsOver =>
        \A row \in InputRows : \A r \in Workers : \A l \in LocalParts :
            Copies(row, Rows(edge_data[r].local[l])) =
                (IF r + l * world_size = part[row[2]] THEN 1 ELSE 0)

\* a finished run with two workers, two local partitions and two chunks in
\* which an edge crosses to the other worker, an edge stays, and an edge is
\* delivered in the second local-partition pass
C1_Witness ==
    /\ world_size = 2 /\ num_parts = 4
    /\ \A r \in Workers : Returned(r, "exchange_edge_data") /\ es[r].num_chunks = 2
    /\ \E s \in Workers : \E i, j \in 1..Len(edge_files[s].global_eid) :
          /\ part[edge_files[s].global_dst_id[i]] % world_size # s
          /\ part[edge_files[s].global_dst_id[j]] % world_size = s
    /\ \E r \in Workers : Len(edge_data[r].local[1].global_eid) > 0

\* C2: when exchange_edge_data has returned on worker r, the worker holds
\* one array set per local partition, every edge under local partition l has
\* partition_of(global_dst) = r + l * world_size, and the unshuffled columns
\* are gone from edge_data.
C2_ReturnedWorkerHoldsOnlyOwnedEdges ==
    \A r \in Workers : Returned(r, "exchange_edge_data") =>
        /\ edge_data[r].plain = <<>>
        /\ DOMAIN edge_data[r].local = LocalParts
        /\ \A l \in LocalParts :
              \A j \in 1..Len(edge_data[r].local[l].global_dst_id) :
                  part[edge_data[r].local[l].global_dst_id[j]] = r + l * world_size

\* worker 1 has returned holding edges in both of its local partitions, one
\* of which it received from worker 0, while worker 0 has not returned yet
C2_Witness ==
    /\ world_size = 2 /\ num_parts = 4
    /\ Returned(1, "exchange_edge_data") /\ ~Returned(0, "exchange_edge_data")
    /\ \A l \in LocalParts : Len(edge_data[1].local[l].global_eid) > 0
    /\ \E l \in LocalParts : \E j \in 1..Len(edge_data[1].local[l].global_eid) :
          edge_data[1].local[l].global_eid[j] < Len(edge_files[0].global_eid)

TotalRead == SumSeq([i \in 1..world_size |-> Len(edge_files[i - 1].global_eid)])

TotalHeld ==
    SumSeq([i \in 1..world_size |->
        SumSeq([j \in 1..(num_parts \div world_size) |->
            Len(edge_data[i - 1].local[j - 1].global_eid)])])

\* C3: the conservation assertion of line 340 never fails, on any worker:
\* the total every worker compares is the number of edges held after the
\* shuffle over all workers and local partitions, and it equals the number
\* of edges read, self-loops and repeated (src, dst) pairs included.
C3_ConservationAssertionHolds ==
    \A r \in Workers :
        /\ error[r] # "ConservationFailure"
        /\ (pc[r] = "edge_cleanup" \/ Returned(r, "exchange_edge_data")) =>
              /\ es[r].shuffle_edge_total = es[r].all_edges
              /\ es[r].shuffle_edge_total = TotalHeld
              /\ es[r].all_edges = TotalRead

\* the assertion has passed on both workers for an input with a self-loop
\* and with the same (src, dst) pair read twice, by different workers
C3_Witness ==
    /\ world_size = 2
    /\ \A r \in Workers : Returned(r, "exchange_edge_data")
    /\ \E s \in Workers : \E i \in 1..Len(edge_files[s].global_eid) :
          edge_files[s].global_src_id[i] = edge_files[s].global_dst_id[i]
    /\ \E i \in 1..Len(edge_files[0].global_eid) :
       \E j \in 1..Len(edge_files[1].global_eid) :
          /\ edge_files[0].global_src_id[i] = edge_files[1].global_src_id[j]
          /\ edge_files[0].global_dst_id[i] = edge_files[1].global_dst_id[j]

\* ---------------------------------------------- properties: gen_node_data
NodeRows(cols) ==
    [i \in 1..Len(cols.global_nid) |->
        <<cols.global_nid[i], cols.global_type_nid[i], cols.ntype_id[i]>>]

\* the triples (global_nid, type_nid, ntype_id) of the schema
SchemaNodes ==
    UNION {{<<GnidStart(t - 1) + i, i, t - 1>> : i \in 0..(ntype_counts[t] - 1)} :
             t \in 1..Len(ntype_counts)}

NodesEmitted ==
    SumSeq([i \in 1..world_size |->
        SumSeq([j \in 1..(num_parts \div world_size) |->
            Len(node_data[i - 1][j - 1].global_nid)])])

\* C4: when gen_node_data has returned on every worker, every node of every
\* node type is in exactly one (worker, local partition) list, once: the one
\* with r + l * world_size = partition_of(global_nid); so the emitted nodes
\* number the sum of the per-type node counts.
C4_EveryNodeEmittedOnceByItsOwner ==
    (\A r \in Workers : Returned(r, "gen_node_data")) =>
        /\ \A n \in SchemaNodes : \A r \in Workers : \A l \in LocalParts :
              Copies(n, NodeRows(node_data[r][l])) =
                  (IF r + l * world_size = part[n[1]] THEN 1 ELSE 0)
        /\ NodesEmitted = NumNodes

\* a finished run on a lopsided assignment: two workers, four partitions,
\* two node types, one partition owning three nodes and another none
C4_Witness ==
    /\ world_size = 2 /\ num_parts = 4 /\ Len(ntype_counts) = 2
    /\ \A r \in Workers : Returned(r, "gen_node_data")
    /\ \E r \in Workers : \E l \in LocalParts : Len(node_data[r][l].global_nid) = 3
    /\ \E r \in Workers : \E l \in LocalParts : Len(node_data[r][l].global_nid) = 0
    /\ \E r \in Workers : \E l \in LocalParts :
          \E i, j \in 1..Len(node_data[r][l].ntype_id) :
              node_data[r][l].ntype_id[i] # node_data[r][l].ntype_id[j]

\* -------------------------------------------- properties: feature shuffle
ExchangePhase(ft) ==
    IF ft = "node_features" THEN "exchange_node_features" ELSE "exchange_edge_features"

\* no worker is inside exchange_features any more: each has returned from it
\* or has been ended by a fatal error
FeatShuffleOver(ft) ==
    \A r \in Workers : Returned(r, ExchangePhase(ft)) \/ pc[r] = "failed"

\* the rows of feature key k that the workers read
FeatInputRows(ft, k) ==
    UNION {Range(feature_data[s][ft][k].rows) : s \in Workers}

\* the rows held by worker r under key k of local partition l
Held(r, ft, k, l) ==
    IF <<k, l>> \in DOMAIN rcvd[r][ft].features THEN rcvd[r][ft].features[<<k, l>>] ELSE <<>>

TimesReceived(row, ft, k) ==
    SumSeq([i \in 1..world_size |->
        SumSeq([j \in 1..(num_parts \div world_size) |->
            Copies(row, Held(i - 1, ft, k, j - 1))])])

\* C5: once no worker is inside exchange_features any more, every feature
\* row that some worker read is held exactly once over all workers and local
\* partitions, so the rows received are as many as the rows read.
C5_EveryFeatureRowReceivedOnce ==
    \A ft \in FeatKinds : FeatShuffleOver(ft) =>
        \A k \in 1..Len(feature_data[0][ft]) : \A row \in FeatInputRows(ft, k) :
            TimesReceived(row, ft, k) = 1

\* the destination node of the edge with global edge id e
EdgeDst(e) ==
    LET s == CHOOSE w \in Workers : e \in Range(edge_files[w].global_eid)
        i == CHOOSE j \in 1..Len(edge_files[s].global_eid) : edge_files[s].global_eid[j] = e
    IN edge_files[s].global_dst_id[i]

\* C6: at every moment, a node feature row held by worker r under local
\* partition l describes a node g with partition_of(g) = r + l * world_size,
\* and an edge feature row held there describes an edge whose destination is
\* in partition r + l * world_size, which is where exchange_edge_data has put
\* the edge once it has returned; so no worker holds a feature row of an
\* entity of another worker's partition.
C6_FeatureRowsHeldWithTheirEntity ==
    \A r \in Workers : \A l \in LocalParts :
        /\ \A k \in 1..Len(feature_data[r].node_features) :
              \A g \in Range(Held(r, "node_features", k, l)) :
                  part[g] = r + l * world_size
        /\ \A k \in 1..Len(feature_data[r].edge_features) :
              \A e \in Range(Held(r, "edge_features", k, l)) :
                  /\ part[EdgeDst(e)] = r + l * world_size
                  /\ Returned(r, "exchange_edge_data") =>
                        e \in Range(edge_data[r].local[l].global_eid)

\* both workers have returned from the edge shuffle; worker 1 holds in its
\* second local partition the feature row of an edge that worker 0 read, and
\* worker 0 holds the row of an edge that worker 1 read
C6_Witness ==
    /\ world_size = 2 /\ num_parts = 4
    /\ \A r \in Workers : Returned(r, "exchange_edge_data")
    /\ \E e \in Range(Held(1, "edge_features", 1, 1)) : e \in Range(edge_files[0].global_eid)
    /\ \E l \in LocalParts : \E e \in Range(Held(0, "edge_features", 1, l)) :
          e \in Range(edge_files[1].global_eid)

\* the global ids of the nodes of type t in local partition l of worker r,
\* by ascending shuffle-global id
NodesByShuffleId(r, l, t) ==
    LET cols == node_data[r][l]
        own == {i \in 1..Len(cols.global_nid) : cols.ntype_id[i] = t}
        ids == SortedSeq({cols.shuffle_global_nid[i] : i \in own})
    IN [n \in 1..Len(ids) |->
           cols.global_nid[CHOOSE i \in own : cols.shuffle_global_nid[i] = ids[n]]]

\* C7: when the reorder pass of the node features has ended on worker r, row
\* i of every (type, feature) table of every local partition is the feature
\* row of the node of that type with the i-th smallest shuffle-global id of
\* the partition, whatever the order in which the rows arrived.
C7_FeatureRowsFollowShuffleIds ==
    \A r \in Workers : Returned(r, "reorder_node_features") =>
        \A l \in LocalParts : \A k \in 1..Len(feature_tids[r].node_features) :
            Held(r, "node_features", k, l) =
                NodesByShuffleId(r, l, feature_tids[r].node_features[k].type)

\* ------------------------------------------ properties: shuffle-global ids
AssignPhase(kind) ==
    IF kind = "nodes" THEN "assign_shuffle_global_nids_nodes"
    ELSE "assign_shuffle_global_nids_edges"

\* the shuffle-global ids of output partition p
ShuffleIds(kind, p) ==
    IF kind = "nodes"
    THEN node_data[p % world_size][p \div world_size].shuffle_global_nid
    ELSE edge_data[p % world_size].local[p \div world_size].shuffle_global_eid

Partitions == 0..(num_parts - 1)

\* C8: once the shuffle-global node ids (likewise the edge ids) are
\* assigned, the ids of output partition p = r + l * world_size are the
\* ascending range that starts at the number of rows of the partitions
\* before p -- the prefix sum with the local partition as outer and the
\* worker as inner index; hence the ids are unique over all partitions and
\* cover [0, total) without a gap.
C8_ShuffleIdsUniqueGapFreeContiguous ==
    \A kind \in {"nodes", "edges"} :
        (\A r \in Workers : Returned(r, AssignPhase(kind))) =>
            LET count(p) == Len(ShuffleIds(kind, p))
                offset(p) == SumSeq([q \in 1..p |-> count(q - 1)])
                total == SumSeq([q \in 1..num_parts |-> count(q - 1)])
            IN /\ \A p \in Partitions :
                     ShuffleIds(kind, p) = Arange(offset(p), offset(p) + count(p))
               /\ \A p, q \in Partitions :
                     p # q => Range(ShuffleIds(kind, p)) \cap Range(ShuffleIds(kind, q)) = {}
               /\ UNION {Range(ShuffleIds(kind, p)) : p \in Partitions} = 0..(total - 1)

\* two workers with two local partitions each have assigned the node ids and
\* every one of the four partitions holds a node
C8_Witness ==
    /\ world_size = 2 /\ num_parts = 4
    /\ \A r \in Workers : Returned(r, "assign_shuffle_global_nids_nodes")
    /\ \A p \in Partitions : Len(ShuffleIds("nodes", p)) > 0

\* ------------------------------------------------- properties: the output
\* the write events of partition p
WritesOf(p) == {i \in 1..Len(sink.parts) : sink.parts[i].part_id = p}

\* worker r has left the loop over its local partitions
WriteLoopOver(r) ==
    pc[r] \in {"gather_metadata", "write_metadata"} \/ Returned(r, "write_partitions")

\* C9: a partition file is only ever written by worker p % world_size as its
\* local partition p div world_size, and never twice; when every worker has
\* left the write loop every partition 0..P-1 has been written exactly once;
\* and for local partition l of worker r the number given to
\* create_dgl_object, to write_dgl_objects and to the metadata fragment (its
\* key and its part id) is the one value r + l * world_size.
C9_EveryPartitionWrittenOnceByItsOwner ==
    /\ \A i \in 1..Len(sink.parts) :
          /\ sink.parts[i].part_id \in Partitions
          /\ sink.parts[i].rank = sink.parts[i].part_id % world_size
          /\ sink.parts[i].local_part_id = sink.parts[i].part_id \div world_size
    /\ \A p \in Partitions : Cardinality(WritesOf(p)) <= 1
    /\ (\A r \in Workers : WriteLoopOver(r)) =>
          \A p \in Partitions : Cardinality(WritesOf(p)) = 1
    /\ \A r \in Workers :
          /\ \A j \in 1..Len(ws[r].built) :
                /\ ws[r].built[j].local_part_id = j - 1
                /\ ws[r].built[j].part_id = r + (j - 1) * world_size
          /\ \A j \in 1..Len(ws[r].output_meta_json) :
                /\ ws[r].output_meta_json[j].key = r + (j - 1) * world_size
                /\ ws[r].output_meta_json[j].part_id = r + (j - 1) * world_size

\* two workers with two local partitions each have left the write loop, all
\* four partitions are written, and the first file written was worker 1's
C9_Witness ==
    /\ world_size = 2 /\ num_parts = 4
    /\ \A r \in Workers : WriteLoopOver(r)
    /\ Len(sink.parts) = 4
    /\ sink.parts[1].rank = 1

\* the fragments of partition p in a metadata document
FragmentsOf(document, p) == {j \in 1..Len(document) : document[j].part_id = p}

\* C10: the metadata document is only ever written by rank 0 and at most
\* once; when it is written, rank 0 has written all of its own partitions,
\* every worker has taken part in the gather, the list rank 0 writes holds
\* the fragments of all W workers, and the document holds exactly one
\* fragment for every partition 0..P-1; when every worker is done the
\* document has been written exactly once.
C10_OnlyRankZeroWritesMetadataOnce ==
    /\ \A i \in 1..Len(sink.metadata) : sink.metadata[i].rank = 0
    /\ Len(sink.metadata) <= 1
    /\ Len(sink.metadata) = 1 =>
          /\ \A l \in LocalParts : WritesOf(l * world_size) # {}
          /\ \A r \in Workers :
                pc[r] \in {"done", "failed"} \/ Returned(r, "write_partitions")
          /\ Len(ws[0].metadata_list) = world_size
          /\ \A r \in Workers : ws[0].metadata_list[r + 1] = ws[r].output_meta_json
          /\ Len(sink.metadata[1].document) = num_parts
          /\ \A p \in Partitions :
                Cardinality(FragmentsOf(sink.metadata[1].document, p)) = 1
    /\ (\A r \in Workers : Returned(r, "write_partitions")) => Len(sink.metadata) = 1
    /\ \A r \in Workers : (r # 0 /\ Returned(r, "write_partitions")) =>
          /\ ws[0].metadata_list[r + 1] = ws[r].output_meta_json
          /\ Len(ws[r].output_meta_json) = num_parts \div world_size

\* rank 0 has written the document of four partitions after worker 1 left
C10_Witness ==
    /\ world_size = 2 /\ num_parts = 4
    /\ Len(sink.metadata) = 1
    /\ Len(sink.metadata[1].document) = 4
    /\ \A r \in Workers : Returned(r, "write_partitions")
    /\ \E j \in 1..4 : sink.metadata[1].document[j].node_count > 0


\* ------------------------------------------------ properties: determinism
\* What the inputs of the run -- the files, the partition map, world_size,
\* num_parts, the message cap -- and the sort routine of the build say about
\* the contents of every table, with no reference to the order in which the
\* workers took their steps.

\* the edge rows of local partition l of worker r as exchange_edge_data
\* leaves them: round by round, and within a round sender by sender, each
\* sender's rows in the order of its file
ExpectedEdgeRows(r, l) ==
    LET count(s) == Len(edge_files[s].global_src_id)
        n == NumChunks(MaxSeq([i \in 1..world_size |-> count(i - 1)]))
        size(s) == LocalChunkSize(count(s), n)
        sent(s, c) ==
            LET rows == Slice(Rows(edge_files[s]), c * size(s), (c + 1) * size(s))
            IN Compress(rows, [i \in 1..Len(rows) |->
                                  part[rows[i][2]] = r + l * world_size])
    IN Flatten([c \in 1..n |-> Flatten([s \in 1..world_size |-> sent(s - 1, c - 1)])])

\* the node rows of local partition l of worker r as gen_node_data leaves them
ExpectedNodeRows(r, l) ==
    Flatten([t \in 1..Len(ntype_counts) |-> NodeRows(OwnNodes(r, t - 1, l))])

\* rows in the order of the build's argsort of their column k (0-based)
SortedBy(rows, k) == Take(rows, argsort[Column(rows, k)])

ExpectedRows(kind, r, l) ==
    IF kind = "nodes" THEN ExpectedNodeRows(r, l) ELSE ExpectedEdgeRows(r, l)

\* the table after reorder_data: nodes by type (column 2), edges by type (column 3)
ExpectedSorted(kind, r, l) ==
    SortedBy(ExpectedRows(kind, r, l), IF kind = "nodes" THEN 2 ELSE 3)

ExpectedShuffleIds(kind, r, l) ==
    LET counts == [w \in Workers |-> [m \in LocalParts |-> Len(ExpectedRows(kind, w, m))]]
    IN Arange(ShuffleStart(counts, r, l), ShuffleStart(counts, r, l) + counts[r][l])

\* the rows of key k that worker r receives for local partition l, in the
\* order of their arrival
ExpectedFeatures(r, ft, k, l) ==
    LET tensor(s) == feature_data[s][ft][k]
        dims == allgather_sizes([s \in Workers |-> Shape(tensor(s))])
        per_chunk(s) ==
            RowsPerChunk(Len(tensor(s).rows),
                         _get_num_chunks(dims, ElementSize(tensor(s).dtype),
                                         feat_mesg_size))
        rounds == CeilDiv(Len(tensor(r).rows), per_chunk(r))
        owner(x) == IF ft = "node_features" THEN part[x] ELSE part[EdgeDst(x)]
        sent(s, c) ==
            LET chunk == Slice(tensor(s).rows, c * per_chunk(s), (c + 1) * per_chunk(s))
            IN Compress(chunk, [i \in 1..Len(chunk) |->
                                   owner(chunk[i]) = r + l * world_size])
    IN Flatten([c \in 1..rounds |-> Flatten([s \in 1..world_size |-> sent(s - 1, c - 1)])])

KindOf(ft) == IF ft = "node_features" THEN "nodes" ELSE "edges"
ShufflePhase(kind) == IF kind = "nodes" THEN "gen_node_data" ELSE "exchange_edge_data"
ReorderPhase(kind) == IF kind = "nodes" THEN "reorder_node_data" ELSE "reorder_edge_data"
FeatReorderPhase(ft) ==
    IF ft = "node_features" THEN "reorder_node_features" ELSE "reorder_edge_features"

TableRows(kind, r, l) ==
    IF kind = "nodes" THEN NodeRows(node_data[r][l]) ELSE Rows(edge_data[r].local[l])

HoldsRows(s, r) == Len(feature_data[s][FeatType(r)][fs[r].key].rows) > 0

\* worker r has taken the skip branch of exchange_features (lines 704-708),
\* which ends in the NameError of its log call
Skipped(r) == pc[r] = "failed" /\ error[r] = "NameError"

\* C12: the shuffle of a feature key is skipped only when no worker holds
\* rows of it: a worker that takes the skip branch implies that no worker of
\* any rank read a row of the key.
C12_SkipOnlyWhenNoWorkerHoldsRows ==
    \A r \in Workers : Skipped(r) => \A s \in Workers : ~HoldsRows(s, r)

\* the worker is inside exchange_features, or was when it failed
InExchangeFeatures(r) ==
    ph[r] <= Len(plan) /\ plan[ph[r]] \in {"exchange_node_features", "exchange_edge_features"}

\* exactly one worker read rows of the key and every other worker none
SingleHolder(ft) ==
    /\ world_size > 1
    /\ Cardinality({s \in Workers : Len(feature_data[s][ft][1].rows) > 0}) = 1

\* C13: when a single worker holds all the rows of a feature and its peers
\* hold none (no tensor, or a tensor of zero rows), exchange_features ends
\* normally on every worker: no worker is ended by a fatal error inside it.
C13_SingleHolderShuffleEndsNormally ==
    \A r \in Workers :
        (InExchangeFeatures(r) /\ SingleHolder(FeatType(r))) => pc[r] # "failed"



\* ------------------------------------- properties: shapes, types and sizes
\* the workers that read rows of key k
Holders(ft, k) == {s \in Workers : Len(feature_data[s][ft][k].rows) > 0}

\* the workers that read rows agree on the trailing dimensions and on the
\* element type
HoldersAgree(ft, k) ==
    \A s, t \in Holders(ft, k) :
        /\ feature_data[s][ft][k].tail = feature_data[t][ft][k].tail
        /\ feature_data[s][ft][k].dtype = feature_data[t][ft][k].dtype

\* C14: a zero-row buffer that a worker sends has the negotiated shape and
\* element type: zero rows, the trailing dimensions of the real rows, and the
\* element type of the workers that hold data, whatever their rank.
C14_ZeroRowBufferHasNegotiatedShapeAndType ==
    \A r \in Workers : \A i \in 1..Len(fs[r].feats_per_rank) :
        LET buffer == fs[r].feats_per_rank[i]
            ft == FeatType(r)
        IN (buffer.rows = <<>> /\ HoldersAgree(ft, fs[r].key)) =>
              \A s \in Holders(ft, fs[r].key) :
                  /\ buffer.shape = <<0>> \o feature_data[s][ft][fs[r].key].tail
                  /\ buffer.dtype = feature_data[s][ft][fs[r].key].dtype



\* the bytes of a tensor, and of one of its rows
Bytes(t) == IF t.present THEN Prod(Shape(t)) * ElementSize(t.dtype) ELSE 0
RowBytes(t) == Prod(t.tail) * ElementSize(t.dtype)

\* the configured cap on a message, in bytes
MSG_CAP == feat_mesg_size * MB

\* n = ceil(max_peer_bytes / MSG_CAP) for key k
CapChunks(ft, k) ==
    CeilDiv(MaxSeq([i \in 1..world_size |-> Bytes(feature_data[i - 1][ft][k])]), MSG_CAP)

\* worker r has computed rows_per_chunk for the key it is shuffling
Chunked(r) == InExchangeFeatures(r) /\ fs[r].rows_per_chunk > 0

\* C17: for a feature with R local rows exchange_features uses
\* rows_per_chunk = max(1, floor(R / n)) with n = ceil(max_peer_bytes /
\* MSG_CAP); in particular rows_per_chunk is 1 whenever 0 < R < n.
C17_RowsPerChunkIsQuotientOrOne ==
    \A r \in Workers :
        (feat_mesg_size > 0 /\ Chunked(r) /\ HoldersAgree(FeatType(r), fs[r].key)) =>
            fs[r].rows_per_chunk =
                Max(1, Len(FeatDataKey(r).rows) \div CapChunks(FeatType(r), fs[r].key))

\* the rows of feature data that worker r sends in the round, over all
\* destinations
RowsSent(r) == SumSeq([i \in 1..Len(fs[r].feats_per_rank) |->
                          Len(fs[r].feats_per_rank[i].rows)])

\* C18: with a non-zero cap, the feature rows that a worker sends in one
\* round, summed over all destinations, never exceed the cap in bytes.
C18_RoundWithinMessageCap ==
    \A r \in Workers :
        (feat_mesg_size > 0 /\ pc[r] = "feat_alltoall"
            /\ HoldersAgree(FeatType(r), fs[r].key)) =>
            RowsSent(r) * RowBytes(FeatDataKey(r)) <= MSG_CAP

\* two workers that hold rows of the key disagree on the number of
\* dimensions, or on the element type
RankMismatch(ft, k) ==
    \E s, t \in Holders(ft, k) :
        Len(feature_data[s][ft][k].tail) # Len(feature_data[t][ft][k].tail)
TypeMismatch(ft, k) ==
    \E s, t \in Holders(ft, k) : feature_data[s][ft][k].dtype # feature_data[t][ft][k].dtype

\* no feature row of the key has been exchanged: no worker has received a
\* buffer of the rows alltoall and no worker holds a received table
NothingExchanged(ft) ==
    \A r \in Workers : fs[r].output_feat_list = <<>> /\ rcvd[r][ft].features = <<>>

\* a received table whose rows came in buffers of different element types
MixedTable(ft) ==
    \E r \in Workers : \E key \in DOMAIN rcvd[r][ft].meta :
        Cardinality(rcvd[r][ft].meta[key].dtypes) > 1

\* C20: if two workers that hold rows of a feature disagree on its number of
\* dimensions or on its element type, no feature row of it is ever exchanged
\* (the shuffle aborts first), and no received table mixes rows of different
\* element types.
C20_MismatchAbortsBeforeExchange ==
    \A ft \in FeatKinds : \A k \in 1..Len(feature_data[0][ft]) :
        (RankMismatch(ft, k) \/ TypeMismatch(ft, k)) =>
            NothingExchanged(ft) /\ ~MixedTable(ft)

\* ------------------------------------------- properties: synchronization
\* the worker is about to issue an alltoall
AtAllToAll(r) == pc[r] \in {"edge_alltoall", "feat_alltoall", "feat_alltoall_ids"}

\* C15: in the edge shuffle and in the feature shuffle a worker issues an
\* alltoall only when the last barrier or alltoall it completed is a barrier,
\* so that every alltoall is preceded by a barrier and no worker issues two
\* alltoalls with no barrier between them.
C15_BarrierBetweenAllToAlls ==
    \A r \in Workers : AtAllToAll(r) => last_collective[r] = "barrier"

\* what the code does: every alltoall of exchange_edge_data follows a
\* barrier directly; exchange_features has one barrier per feature key and
\* local partition, so only the first round's alltoall of the rows follows a
\* barrier, and the alltoall of the ids always follows the alltoall of the
\* rows with no barrier between them.
C15_BarrierPerEdgeRoundAndPerFeatureKey ==
    \A r \in Workers :
        /\ pc[r] = "edge_alltoall" => last_collective[r] = "barrier"
        /\ pc[r] = "feat_alltoall" => (last_collective[r] = "barrier" <=> fs[r].chunk = 0)
        /\ pc[r] = "feat_alltoall_ids" => last_collective[r] = "alltoall"

\* the workers stand between the two alltoalls of the second round of a key
C15_Witness ==
    /\ world_size > 1
    /\ \A r \in Workers : pc[r] = "feat_alltoall_ids" /\ fs[r].chunk = 1


\* ------------------------------------------------ properties: phase order
\* worker r has entered the function named phase
Started(r, phase) == \E i \in 1..Len(plan) : plan[i] = phase /\ ph[r] >= i

\* phase a is entered only by a worker that has returned from phase b
After(r, a, b) == Started(r, a) => Returned(r, b)

\* the order within the node half and the edge half, and before the writes
ReorderAfterAssignWriteAfterReorder(r) ==
    /\ After(r, "reorder_node_features", "assign_shuffle_global_nids_nodes")
    /\ After(r, "reorder_edge_features", "assign_shuffle_global_nids_edges")
    /\ After(r, "write_partitions", "reorder_node_features")
    /\ After(r, "write_partitions", "reorder_edge_features")

\* C16: on every worker the edge shuffle and both feature shuffles have
\* finished before the local nodes are synthesized, the ids are assigned only
\* after the nodes are synthesized, each feature table is reordered only
\* after the shuffle-global ids of its entities are assigned, and no
\* partition is written before its features are reordered.
C16_ShufflesThenNodesThenIdsThenReorderThenWrite ==
    \A r \in Workers :
        /\ After(r, "gen_node_data", "exchange_edge_data")
        /\ After(r, "gen_node_data", "exchange_node_features")
        /\ After(r, "gen_node_data", "exchange_edge_features")
        /\ After(r, "assign_shuffle_global_nids_nodes", "gen_node_data")
        /\ After(r, "assign_shuffle_global_nids_edges", "gen_node_data")
        /\ ReorderAfterAssignWriteAfterReorder(r)

\* what the code does: the node features are shuffled, then the edge
\* features, then the local nodes are synthesized, and only then are the
\* edges shuffled; the ids are assigned after all four, for the nodes and
\* then, after the node features are reordered, for the edges.
C16_FeaturesThenNodesThenEdgesThenIdsThenReorderThenWrite ==
    \A r \in Workers :
        /\ After(r, "exchange_edge_features", "exchange_node_features")
        /\ After(r, "gen_node_data", "exchange_edge_features")
        /\ After(r, "exchange_edge_data", "gen_node_data")
        /\ After(r, "reorder_node_data", "exchange_edge_data")
        /\ After(r, "assign_shuffle_global_nids_nodes", "reorder_node_data")
        /\ After(r, "reorder_edge_data", "reorder_node_features")
        /\ After(r, "assign_shuffle_global_nids_edges", "reorder_edge_data")
        /\ ReorderAfterAssignWriteAfterReorder(r)

\* two workers have run the whole pipeline: every partition is written and
\* holds nodes with shuffle-global ids and the feature rows of its nodes
C16_Witness ==
    /\ world_size = 2
    /\ \A r \in Workers : pc[r] = "done" /\ Returned(r, "write_partitions")
    /\ \A p \in Partitions : Cardinality(WritesOf(p)) = 1
    /\ \A r \in Workers :
          /\ Len(node_data[r][0].shuffle_global_nid) > 0
          /\ Len(Held(r, "node_features", 1, 0)) > 0



\* ------------------------------------------- properties: edge chunk sizes
\* the largest number of edges that a worker read
MaxEdgesRead ==
    CHOOSE n \in {Len(edge_files[s].global_src_id) : s \in Workers} :
        \A s \in Workers : Len(edge_files[s].global_src_id) <= n

\* worker r has derived the chunking from the gathered counts
EdgeChunked(r) ==
    pc[r] \in {"edge_prepare", "edge_barrier", "edge_alltoall", "edge_check", "edge_cleanup"}

\* the rows that worker r sends in the round, over all destinations
EdgeRowsSent(r) ==
    SumSeq([i \in 1..Len(es[r].input_list) |-> Len(es[r].input_list[i])])

\* C19: exchange_edge_data uses num_chunks = ceil(max_edges / CHUNK_SIZE),
\* the least number of chunks of CHUNK_SIZE rows that hold the largest local
\* edge count, which is the same on every worker; and the slice that a worker
\* takes, and sends, in a round has at most CHUNK_SIZE rows.
C19_NumChunksIsCeilingAndSlicesFit ==
    \A r \in Workers : EdgeChunked(r) =>
        /\ es[r].num_chunks * CHUNK_SIZE >= MaxEdgesRead
        /\ (es[r].num_chunks - 1) * CHUNK_SIZE < MaxEdgesRead
        /\ \A q \in Workers : EdgeChunked(q) => es[q].num_chunks = es[r].num_chunks
        /\ es[r].LOCAL_CHUNK_SIZE <= CHUNK_SIZE
        /\ EdgeRowsSent(r) <= CHUNK_SIZE

\* two workers of which one read more edges than a chunk holds are in the
\* second round, and the one with the edges is about to send its last edge
C19_Witness ==
    /\ world_size = 2
    /\ MaxEdgesRead > CHUNK_SIZE
    /\ \A r \in Workers : pc[r] = "edge_alltoall" /\ es[r].num_chunks = 2 /\ es[r].chunk = 1
    /\ \E r \in Workers : EdgeRowsSent(r) = 1

\* ------------------------------- properties: residency of the edge range
\* the statements of exchange_feature after the lookup of lines 445-472
AfterLookup == {"feat_lens", "feat_shape", "feat_alltoall", "feat_alltoall_ids"}

\* the edge ids of the chunk the worker has entered last
ChunkRange(r) == Range(Arange(fs[r].chunk_gid_start, fs[r].chunk_gid_end))

\* every edge id of the chunk is among the edges the worker has read
Resident(r) == ChunkRange(r) \subseteq Range(edge_files[r].global_eid)

\* the partition of the destination of the edge gid that worker r has read
OwnDestination(r, gid) ==
    part[edge_files[r].global_dst_id[
        CHOOSE p \in 1..Len(edge_files[r].global_eid) : edge_files[r].global_eid[p] = gid]]

\* C21: in the edge-feature shuffle a worker whose chunk range holds an edge
\* id it has not read fails with the assertion of line 468 and gets to no
\* statement of exchange_feature after the lookup, so it sends no row of the
\* chunk; and a worker past the lookup has bucketed every row of the chunk by
\* the partition of the destination of the edge with that very id.
C21_NonResidentRangeIsFatalAndNothingIsMisrouted ==
    \A r \in Workers :
        pc[r] \in AfterLookup \cup {"failed"} /\ plan[ph[r]] = "exchange_edge_features" =>
            /\ ~Resident(r) => /\ pc[r] = "failed"
                               /\ error[r] = "AssertionError"
                               /\ fs[r].feats_per_rank = <<>>
                               /\ fs[r].global_id_per_rank = <<>>
            /\ pc[r] \in AfterLookup =>
                  /\ Len(fs[r].partid_slice) = fs[r].chunk_gid_end - fs[r].chunk_gid_start
                  /\ \A i \in 1..Len(fs[r].partid_slice) :
                        fs[r].partid_slice[i] = OwnDestination(r, fs[r].chunk_gid_start + i - 1)
                  /\ \A idx \in 1..Len(fs[r].global_id_per_rank) :
                        \A j \in 1..Len(fs[r].global_id_per_rank[idx]) :
                            OwnDestination(r, fs[r].global_id_per_rank[idx][j])
                                = (idx - 1) + fs[r].local_part_id * world_size

\* one worker has failed on a range that is not resident while its peer,
\* whose range is resident, waits in the allgather of line 481
C21_Witness ==
    \E r, q \in Workers :
        /\ pc[r] = "failed" /\ error[r] = "AssertionError" /\ ~Resident(r)
        /\ pc[q] = "feat_lens" /\ Resident(q) /\ ChunkRange(q) # {}

\* ------------------------------------ properties: edges that no worker owns
\* the partitions that are a local partition of some worker
OwnedPartitions == {r + l * world_size : r \in Workers, l \in LocalParts}

\* the edges read whose destination is in a partition that no worker owns
StrayEdges ==
    {<<r, i>> \in Workers \X (1..MaxEdges) :
        /\ i <= Len(edge_files[r].global_dst_id)
        /\ part[edge_files[r].global_dst_id[i]] \notin OwnedPartitions}

\* the statements of exchange_edge_data up to the conservation check
BeforeEdgeCheck ==
    {"edge_barrier_begin", "edge_allgather", "edge_prepare", "edge_barrier",
     "edge_alltoall", "edge_check"}

\* C22: when some edge read is routed to no bucket, no worker returns from
\* exchange_edge_data: every worker is still before the conservation check, or
\* has failed it, and the workers fail it together with the same totals, the
\* gathered total being short of the edges read by the number of stray edges.
C22_StrayEdgeFailsConservationOnEveryWorker ==
    StrayEdges # {} =>
        /\ \A r \in Workers :
              \/ pc[r] \in BeforeEdgeCheck
              \/ /\ pc[r] = "failed" /\ error[r] = "ConservationFailure"
                 /\ es[r].shuffle_edge_total = es[r].all_edges - Cardinality(StrayEdges)
        /\ (\E r \in Workers : pc[r] = "failed") => \A r \in Workers : pc[r] = "failed"

\* two workers have failed the check; one of them has read a stray edge and
\* the other has read only edges that were delivered
C22_Witness ==
    /\ world_size = 2
    /\ \A r \in Workers : pc[r] = "failed" /\ error[r] = "ConservationFailure"
    /\ \E r, q \in Workers :
          /\ \E i \in 1..MaxEdges : <<r, i>> \in StrayEdges
          /\ edge_files[q].global_dst_id # <<>>
          /\ \A i \in 1..MaxEdges : <<q, i>> \notin StrayEdges

\* --------------------------- properties: fewer partitions than workers
\* no edge was read by any worker
NoEdgeRead == \A r \in Workers : edge_files[r].global_eid = <<>>

ArrivedEdges(r, l, n) ==
    LET count(s) == Len(edge_files[s].global_src_id)
        chunks == NumChunks(MaxSeq([i \in 1..world_size |-> count(i - 1)]))
        size(s) == LocalChunkSize(count(s), chunks)
        sent(s, c) ==
            LET rows == Slice(Rows(edge_files[s]), c * size(s), (c + 1) * size(s))
            IN Compress(rows, [i \in 1..Len(rows) |->
                                  part[rows[i][2]] = r + l * world_size])
    IN Flatten([c \in 1..n |-> Flatten([s \in 1..world_size |-> sent(s - 1, c - 1)])])

\* the same for the rows of node-feature key k
ArrivedFeatures(r, k, l, n) ==
    LET tensor(s) == feature_data[s].node_features[k]
        dims == allgather_sizes([s \in Workers |-> Shape(tensor(s))])
        per_chunk(s) ==
            RowsPerChunk(Len(tensor(s).rows),
                         _get_num_chunks(dims, ElementSize(tensor(s).dtype),
                                         feat_mesg_size))
        sent(s, c) ==
            LET chunk == Slice(tensor(s).rows, c * per_chunk(s), (c + 1) * per_chunk(s))
            IN Compress(chunk, [i \in 1..Len(chunk) |->
                                   part[chunk[i]] = r + l * world_size])
    IN Flatten([c \in 1..n |-> Flatten([s \in 1..world_size |-> sent(s - 1, c - 1)])])

\* the rounds of the current (key, local partition) that the worker has completed
FeatRoundsDone(r) ==
    IF pc[r] = "feat_loop" THEN fs[r].chunk + 1 ELSE fs[r].chunk

\* the table of a (key, local partition), empty until its first round
TableOf(dict, key) == IF key \in DOMAIN dict THEN dict[key] ELSE <<>>

\* C24: after every round of the edge shuffle and of the feature shuffle what
\* a worker has accumulated is the concatenation, in ascending round, and
\* within a round in ascending sender rank, of the rows every sender addressed
\* to it, each sender's rows in the order that sender read them; this is a
\* value computed from the inputs, the same under every interleaving.
C24_ArrivalOrderIsRoundThenSenderThenRow ==
    \A r \in Workers :
        /\ pc[r] \in {"edge_prepare", "edge_barrier", "edge_alltoall"} =>
              Rows(es[r].acc) = ArrivedEdges(r, es[r].local_part_id, es[r].chunk)
        /\ \A l \in DOMAIN edge_data[r].local :
              Rows(edge_data[r].local[l]) = ArrivedEdges(r, l, es[r].num_chunks)
        /\ pc[r] \in AfterLookup \cup {"feat_loop"} =>
              LET key == <<fs[r].key, fs[r].local_part_id>>
                  arrived == ArrivedFeatures(r, fs[r].key, fs[r].local_part_id,
                                             FeatRoundsDone(r))
              IN /\ TableOf(rcvd[r].node_features.features, key) = arrived
                 /\ TableOf(rcvd[r].node_features.global_ids, key) = arrived

\* a worker has received feature rows in two rounds, the rows of the second
\* round from both senders, and is now in the second round of the edge
\* shuffle, having received edges from both senders in the first
C24_Witness ==
    \E r \in Workers :
        /\ feat_mesg_size > 0
        /\ Len(TableOf(rcvd[r].node_features.global_ids, <<1, 0>>)) = 4
        /\ pc[r] = "edge_barrier" /\ es[r].chunk = 1
        /\ \A s \in Workers :
              \E i \in 1..Len(es[r].acc.global_eid) :
                  es[r].acc.global_eid[i] \in Range(edge_files[s].global_eid)

\* ------------------------------------- properties: order of the edge table
\* the columns are in ascending (etype_id, type_eid) order
SortedByTypeThenTypeEid(cols) ==
    \A i, j \in 1..Len(cols.etype_id) :
        i < j => \/ cols.etype_id[i] < cols.etype_id[j]
                 \/ /\ cols.etype_id[i] = cols.etype_id[j]
                    /\ cols.global_type_eid[i] < cols.global_type_eid[j]

\* every worker stands at the assignment of the shuffle-global edge ids
AssigningEdgeIds ==
    \A r \in Workers :
        pc[r] = "assign_ids" /\ plan[ph[r]] = "assign_shuffle_global_nids_edges"

\* C25: when the shuffle-global edge ids are assigned, the edges of every
\* local partition are in ascending (etype_id, type_eid) order, whatever the
\* order of their arrival.
C25_EdgesSortedByTypeThenTypeEidAtAssignment ==
    AssigningEdgeIds =>
        \A r \in Workers : \A l \in LocalParts :
            SortedByTypeThenTypeEid(edge_data[r].local[l])

AllHoldAlike(ft, k) == Holders(ft, k) = Workers /\ HoldersAgree(ft, k)

\* C27: for every (type, feature, local partition) all workers execute the
\* same number of exchange_feature rounds, whatever their local row counts,
\* so no worker waits in a collective that a peer never joins, and none
\* leaves the loop while a peer waits in a collective of it.
C27_EveryWorkerRunsTheSameRounds ==
    \A r \in Workers :
        (InExchangeFeatures(r) /\ AllHoldAlike(FeatType(r), fs[r].key)) =>
            /\ ~Stranded(r)
            /\ error[r] # "CollectiveTimeout"
            /\ \A q \in Workers :
                  (Chunked(r) /\ Chunked(q) /\ InExchangeFeatures(q)
                      /\ fs[q].key = fs[r].key
                      /\ fs[q].local_part_id = fs[r].local_part_id) =>
                        fs[q].num_msg_chunks = fs[r].num_msg_chunks

\* ---------------------------------- properties: rounds of the edge shuffle
\* rounds of lines 260-328 worker r has completed, from its loop variables
EdgeRounds(r) == es[r].local_part_id * es[r].num_chunks + es[r].chunk

EdgeRoundsDue(r) == (num_parts \div world_size) * es[r].num_chunks

InEdgeRound == {"edge_prepare", "edge_barrier", "edge_alltoall"}

AfterEdgeRounds == {"edge_check", "edge_cleanup", "done"}

\* the rounds worker r has done are those its position says
EdgeRoundsCounted(r) ==
    /\ pc[r] \in InEdgeRound => EdgeRounds(r) < EdgeRoundsDue(r)
    /\ pc[r] \in AfterEdgeRounds => EdgeRounds(r) = EdgeRoundsDue(r)
    /\ \A q \in Workers :
          (pc[r] \in InEdgeRound \cup AfterEdgeRounds
              /\ pc[q] \in InEdgeRound \cup AfterEdgeRounds) =>
                /\ es[q].num_chunks = es[r].num_chunks
                /\ pc[q] = pc[r] /\ pc[r] \in Collectives =>
                      EdgeRounds(q) = EdgeRounds(r)
    /\ ~Stranded(r)

\* one step of worker r inside a round: the lookup and bucketing, then the
\* barrier, then the alltoall, which alone completes the round
EdgeRoundStep(r) ==
    /\ pc[r] = "edge_prepare" =>
          pc'[r] \in {"edge_prepare", "edge_barrier"} /\ EdgeRounds(r)' = EdgeRounds(r)
    /\ pc[r] = "edge_barrier" =>
          pc'[r] \in {"edge_barrier", "edge_alltoall"} /\ EdgeRounds(r)' = EdgeRounds(r)
    /\ pc[r] = "edge_alltoall" /\ pc'[r] # "edge_alltoall" =>
          /\ pc'[r] \in {"edge_prepare", "edge_check"}
          /\ EdgeRounds(r)' = EdgeRounds(r) + 1
          /\ \A q \in Workers : pc[q] = "edge_alltoall" /\ pc'[q] = pc'[r]

EdgeShuffleOver == \A r \in Workers : pc[r] \in {"done", "failed"}

\* C28: in exchange_edge_data every worker performs exactly
\* (num_parts div world_size) * num_chunks rounds, each one lookup followed
\* by one alltoall, also a worker with no edge or fewer edges than the
\* largest count; the workers stand in the same collective of the same round,
\* none waits for a peer that will not come, and the function ends on all.
C28_EveryWorkerRunsAllEdgeRoundsAndEnds ==
    /\ [](\A r \in Workers : EdgeRoundsCounted(r))
    /\ [][\A r \in Workers : EdgeRoundStep(r)]_vars
    /\ <>[]EdgeShuffleOver

\* a worker without edges and a worker with three of them have both returned
\* after two rounds per local partition
C28_Witness ==
    /\ \E r, q \in Workers :
          /\ Len(edge_files[r].global_src_id) = 0
          /\ Len(edge_files[q].global_src_id) = MaxEdges
    /\ \A r \in Workers :
          /\ pc[r] = "done" /\ error[r] = ""
          /\ es[r].num_chunks = 2
          /\ EdgeRounds(r) = 2 * (num_parts \div world_size)

\* ----------------------------------- properties: slices of the edge shuffle
\* the slice of column col that worker r takes in chunk k (lines 268-279)
EdgeSlice(r, col, k) ==
    Slice(edge_files[r][col], k * es[r].LOCAL_CHUNK_SIZE,
          (k + 1) * es[r].LOCAL_CHUNK_SIZE)

\* the 0-based positions of the local edges that chunk k takes
EdgeSlicePositions(r, k) ==
    {i \in 0..(Len(edge_files[r].global_eid) - 1) :
        k * es[r].LOCAL_CHUNK_SIZE <= i /\ i < (k + 1) * es[r].LOCAL_CHUNK_SIZE}

\* the rows worker r has bucketed in the round it is in
EdgeRowsBucketed(r) == Range(Flatten(es[r].input_list))

\* C29: in a local-partition pass of exchange_edge_data the slices
\* [k*L, (k+1)*L), k = 0..num_chunks-1, with L = ceil(num_edges / num_chunks),
\* take every local edge exactly once: put end to end they give back each of
\* the five columns, no position is in two slices or in none, a slice past
\* the end is empty, and the rows bucketed in a round are rows of its slice.
C29_ChunkSlicesTakeEveryLocalEdgeOnce ==
    \A r \in Workers : EdgeChunked(r) =>
        LET num_edges == Len(edge_files[r].global_eid)
            L == es[r].LOCAL_CHUNK_SIZE
            chunks == 0..(es[r].num_chunks - 1)
        IN /\ L * es[r].num_chunks >= num_edges
           /\ (L - 1) * es[r].num_chunks < num_edges
           /\ \A col \in EdgeColumns :
                 Flatten([j \in 1..es[r].num_chunks |-> EdgeSlice(r, col, j - 1)])
                     = edge_files[r][col]
           /\ \A i \in 0..(num_edges - 1) :
                 Cardinality({k \in chunks : i \in EdgeSlicePositions(r, k)}) = 1
           /\ \A k \in chunks :
                 k * L >= num_edges => EdgeSlice(r, "global_eid", k) = <<>>
           /\ pc[r] \in {"edge_barrier", "edge_alltoall"} =>
                 EdgeRowsBucketed(r) =
                    {row \in InputRows :
                        /\ row[5] \in Range(EdgeSlice(r, "global_eid", es[r].chunk))
                        /\ part[row[2]] \div world_size = es[r].local_part_id}

\* a worker with three edges is in its second round with the third edge
\* bucketed, while its peer, without edges, takes an empty slice
C29_Witness ==
    /\ world_size = 2
    /\ \E r, q \in Workers :
          /\ Len(edge_files[r].global_eid) = 3 /\ Len(edge_files[q].global_eid) = 0
          /\ pc[r] = "edge_alltoall" /\ pc[q] = "edge_alltoall"
          /\ es[r].chunk = 1 /\ es[r].LOCAL_CHUNK_SIZE = 2
          /\ Cardinality(EdgeRowsBucketed(r)) = 1
          /\ EdgeSlice(q, "global_eid", 1) = <<>>

\* -------------------------------- properties: slices of the feature shuffle
\* worker r is inside an iteration of the chunk loop of lines 728-761
InChunk(r) ==
    /\ InExchangeFeatures(r)
    /\ pc[r] \in AfterLookup \cup {"feat_loop"}

\* the slice, the type-id range and the global-id range of the iteration
\* worker r is in are the chunk-th run of rows_per_chunk rows, cut at the
\* last row, and the owners looked up are those of the rows of the slice
ChunkSliced(r) ==
    LET f == fs[r]
        R == Len(FeatDataKey(r).rows)
        type_id_start == FeatInfo(r).tids[1]
        begin_global_id == BeginGlobalId(FeatType(r), FeatInfo(r).type)
    IN /\ f.chunk \in 0..(f.num_msg_chunks - 1)
       /\ f.start = f.chunk * f.rows_per_chunk
       /\ f.end = Min(f.start + f.rows_per_chunk, R)
       /\ f.start < f.end
       /\ f.chunk = f.num_msg_chunks - 1 => f.end = R
       /\ f.chunk_typeid_end - f.chunk_typeid_start = f.end - f.start
       /\ f.chunk_gid_end - f.chunk_gid_start = f.end - f.start
       /\ f.chunk_typeid_start = type_id_start + f.start
       /\ f.chunk_gid_start = begin_global_id + f.chunk_typeid_start
       /\ ChunkFeatData(r) = Arange(f.chunk_typeid_start, f.chunk_typeid_end)
       /\ Len(f.partid_slice) = f.end - f.start
       /\ \A i \in 1..Len(f.partid_slice) :
             f.partid_slice[i] = part[f.chunk_gid_start + i - 1]

\* the next iteration starts where this one ended, and the loop is left after
\* the slice that ends at the last row
ChunkStep(r) ==
    (InChunk(r) /\ pc[r] = "feat_loop" /\ pc'[r] # "feat_loop") =>
        IF pc'[r] \in AfterLookup \cup {"failed"} /\ fs'[r].key = fs[r].key
              /\ fs'[r].local_part_id = fs[r].local_part_id
        THEN /\ fs'[r].chunk = fs[r].chunk + 1
             /\ fs'[r].start = fs[r].end
             /\ fs'[r].chunk_typeid_start = fs[r].chunk_typeid_end
             /\ fs'[r].chunk_gid_start = fs[r].chunk_gid_end
        ELSE fs[r].end = Len(FeatDataKey(r).rows)

\* C30: within one (type, feature, local partition) pass of exchange_features
\* the row slices [start, end) are taken in ascending order, do not overlap
\* and, when the pass is left, have covered all local rows; for every chunk
\* the type-id range and the global-id range handed to exchange_feature have
\* end - start elements and are the ids of the rows of the slice, so a row is
\* routed by its own global id.
C30_FeatureSlicesCoverRowsAndCarryTheirIds ==
    /\ [](\A r \in Workers : InChunk(r) => ChunkSliced(r))
    /\ [][\A r \in Workers : ChunkStep(r)]_vars

\* a worker with five rows, two per chunk, is in its third iteration with the
\* one row that is left
C30_Witness ==
    \E r \in Workers :
        /\ InChunk(r) /\ pc[r] = "feat_loop"
        /\ Len(FeatDataKey(r).rows) = MaxSliceRows
        /\ fs[r].rows_per_chunk = 2 /\ fs[r].chunk = 2
        /\ fs[r].start = 4 /\ fs[r].end = 5
        /\ fs[r].chunk_gid_end - fs[r].chunk_gid_start = 1

\* ------------------------------- properties: the fields of a shuffled edge
\* the five columns have one length
RowAligned(cols) ==
    \A c \in EdgeColumns : Len(cols[c]) = Len(cols.global_eid)

\* every row of the columns is a record that some worker has read
RowsAsRead(cols) ==
    /\ RowAligned(cols)
    /\ \A j \in 1..Len(cols.global_eid) : Rows(cols)[j] \in InputRows

\* C31: every edge record received in the shuffle has the five field values
\* (global_src, global_dst, type_eid, etype_id, global_eid) of the record
\* that was sent: the rows bucketed for sending, the rows accumulated during
\* a pass and the rows of every per-local-partition array are records as they
\* were read, the five arrays are of one length, and the edge type and the
\* global edge id are those of the sender.
C31_ReceivedEdgeHasTheFieldsThatWereSent ==
    \A r \in Workers :
        /\ \A i \in 1..Len(es[r].input_list) :
              \A j \in 1..Len(es[r].input_list[i]) :
                  es[r].input_list[i][j] \in InputRows
        /\ RowsAsRead(es[r].acc)
        /\ \A l \in DOMAIN edge_data[r].local : RowsAsRead(edge_data[r].local[l])

\* worker 0 holds, after the shuffle, an edge of type 1 that worker 1 has
\* read, whose type-edge id differs from its global edge id and whose
\* endpoints differ
C31_Witness ==
    /\ Returned(0, "exchange_edge_data")
    /\ \E l \in LocalParts : \E j \in 1..Len(edge_data[0].local[l].global_eid) :
          LET row == Rows(edge_data[0].local[l])[j]
          IN /\ row \in {Rows(edge_files[1])[i] : i \in 1..Len(edge_files[1].global_eid)}
             /\ row[4] = 1 /\ row[3] # row[5] /\ row[1] # row[2]

\* ------------------------ properties: the feature table and its id column
\* the rows a tensor of the inputs holds are named by the type id of their
\* entity; the global id of the entity of a row of feature kind ft, type t
EntityOfRow(ft, t, row) == BeginGlobalId(ft, t) + row

\* the type of the entities of key k of kind ft, which all workers agree on
TypeOfKey(ft, k) == feature_tids[0][ft][k].type

\* the tables of worker r are as exchange_feature left them: the reorder of
\* lines 1279-1305 and 1321-1346, which puts the rows of a table in the order
\* of the shuffle-global ids, has not run
AsShuffled(r) ==
    ~(Returned(r, "reorder_node_features") \/ Returned(r, "reorder_edge_features"))

\* C32: after any sequence of exchange_feature calls, for every key the
\* accumulated feature table and the accumulated global-id column have the
\* same number of rows, and row j of the table is the feature row of the
\* entity whose global id is entry j of the column.
C32_TableRowsMatchTheirGlobalIds ==
    \A r \in Workers : \A ft \in FeatKinds : AsShuffled(r) =>
        /\ DOMAIN rcvd[r][ft].features = DOMAIN rcvd[r][ft].global_ids
        /\ \A key \in DOMAIN rcvd[r][ft].features :
              /\ Len(rcvd[r][ft].features[key]) = Len(rcvd[r][ft].global_ids[key])
              /\ \A j \in 1..Len(rcvd[r][ft].features[key]) :
                    EntityOfRow(ft, TypeOfKey(ft, key[1]), rcvd[r][ft].features[key][j])
                        = rcvd[r][ft].global_ids[key][j]

\* after two calls for one key a worker holds rows of both workers, sent in
\* different rounds, and not in ascending order of their ids
C32_Witness ==
    \E r \in Workers : \E key \in DOMAIN rcvd[r].node_features.features :
        LET ids == rcvd[r].node_features.global_ids[key]
        IN /\ Len(ids) >= 3
           /\ \E j \in 1..(Len(ids) - 1) : ids[j] > ids[j + 1]
           /\ \E s \in Workers : s # r /\ \E j \in 1..Len(ids) :
                 ids[j] \in Range(FeatDataKey(s).rows)
           /\ pc[r] = "feat_loop" /\ fs[r].chunk >= 1

\* ------------------------------ properties: what a feature round leaves alone
IsPrefix(a, b) == Len(a) <= Len(b) /\ SubSeq(b, 1, Len(a)) = a

\* a step taken while worker r is in exchange_features keeps, in the
\* dictionary dict of kind ft, every key with its rows as a prefix, changes
\* and adds no key but that of the call the worker is in
OnlyOwnKeyAppended(r, ft, dict) ==
    LET own == <<fs[r].key, fs[r].local_part_id>>
        old == rcvd[r][ft][dict]
        new == rcvd'[r][ft][dict]
    IN /\ DOMAIN old \subseteq DOMAIN new
       /\ \A key \in DOMAIN old : IsPrefix(old[key], new[key])
       /\ \A key \in DOMAIN new :
             (ft # FeatType(r) \/ key # own) => key \in DOMAIN old /\ new[key] = old[key]

\* C33: each exchange_feature call only appends to the accumulated table and
\* global-id column of its own key type/feature/local_part: what the key held
\* stays as an unchanged prefix, in arrival order, and the tables and id
\* columns of every other key are unchanged.
C33_RoundAppendsToItsOwnKeyOnly ==
    [][\A r \in Workers : InExchangeFeatures(r) =>
          \A ft \in FeatKinds : \A dict \in {"features", "global_ids"} :
              OnlyOwnKeyAppended(r, ft, dict)]_vars

\* a worker has completed the second round of its second local-partition
\* pass and holds rows under the keys of both local partitions
C33_Witness ==
    \E r \in Workers :
        /\ InExchangeFeatures(r) /\ pc[r] = "feat_loop"
        /\ fs[r].local_part_id = 1 /\ fs[r].chunk >= 1
        /\ LET tables == rcvd[r][FeatType(r)].features
           IN /\ <<fs[r].key, 0>> \in DOMAIN tables
              /\ <<fs[r].key, 1>> \in DOMAIN tables
              /\ Len(tables[<<fs[r].key, 0>>]) >= 1
              /\ Len(tables[<<fs[r].key, 1>>]) >= 2

\* ------------------------------- properties: the buffers of an edge round
\* worker r has built the buffers of its round and not yet exchanged them
EdgeBuffersBuilt(r) == pc[r] \in {"edge_barrier", "edge_alltoall"}

\* the rows of the slice of the round, in slice order
EdgeSliceRows(r) ==
    ColumnStack(EdgeSlice(r, "global_src_id", es[r].chunk),
                EdgeSlice(r, "global_dst_id", es[r].chunk),
                EdgeSlice(r, "global_type_eid", es[r].chunk),
                EdgeSlice(r, "etype_id", es[r].chunk),
                EdgeSlice(r, "global_eid", es[r].chunk))

\* C34: in every alltoall round of the edge shuffle a worker supplies exactly
\* world_size buffers, one per destination rank in rank order: buffer i holds
\* the rows of the slice whose destination lives in partition
\* i + local_part_id * world_size, in slice order, and a destination without
\* such a row has a buffer of shape (0, 5) in its place, also when the whole
\* slice is empty.
C34_OneBufferPerDestinationInRankOrder ==
    \A r \in Workers : EdgeBuffersBuilt(r) =>
        /\ Len(es[r].input_list) = world_size
        /\ Len(InputShapes(r)) = world_size
        /\ \A i \in 1..Len(es[r].input_list) :
              /\ es[r].input_list[i] =
                    SelectSeq(EdgeSliceRows(r),
                              LAMBDA row : part[row[2]] =
                                  (i - 1) + es[r].local_part_id * world_size)
              /\ InputShapes(r)[i] = <<Len(es[r].input_list[i]), 5>>

\* in one round a worker without edges supplies two zero-row buffers and its
\* peer a zero-row buffer for rank 0 and rows for rank 1
C34_Witness ==
    /\ world_size = 2
    /\ \E r, q \in Workers :
          /\ EdgeBuffersBuilt(r) /\ EdgeBuffersBuilt(q)
          /\ edge_files[r].global_eid = <<>>
          /\ InputShapes(r) = <<<<0, 5>>, <<0, 5>>>>
          /\ es[q].input_list[1] = <<>> /\ Len(es[q].input_list[2]) >= 1

\* ------------------------------------- properties: order of the node table
\* the columns are in ascending (ntype_id, type_nid) order
SortedByTypeThenTypeNid(cols) ==
    \A i, j \in 1..Len(cols.ntype_id) :
        i < j => \/ cols.ntype_id[i] < cols.ntype_id[j]
                 \/ /\ cols.ntype_id[i] = cols.ntype_id[j]
                    /\ cols.global_type_nid[i] < cols.global_type_nid[j]

\* every worker stands at the assignment of the shuffle-global node ids
AssigningNodeIds ==
    \A r \in Workers :
        pc[r] = "assign_ids" /\ plan[ph[r]] = "assign_shuffle_global_nids_nodes"

\* C35: when the shuffle-global node ids are assigned, the nodes of every
\* local partition are in ascending (ntype_id, type_nid) order: gen_node_data
\* emits them so and the sort by ntype_id of reorder_data keeps the nodes of
\* one type in their relative order.
C35_NodesSortedByTypeThenTypeNidAtAssignment ==
    AssigningNodeIds =>
        \A r \in Workers : \A l \in LocalParts :
            SortedByTypeThenTypeNid(node_data[r][l])

\* ----------------------------------- properties: the ids of a node record
\* row j of the columns is a node of the schema: its global id is the offset
\* of its type plus its type id, which is below the node count of the type
NodeOfSchema(cols, j) ==
    LET t == cols.ntype_id[j]
    IN /\ t \in 0..(Len(ntype_counts) - 1)
       /\ 0 <= cols.global_type_nid[j]
       /\ cols.global_type_nid[j] < ntype_counts[t + 1]
       /\ cols.global_nid[j] = TypeOffset(t) + cols.global_type_nid[j]
       /\ TypeOf(cols.global_nid[j]) = t

\* C36: every node record emitted by gen_node_data has
\* global_nid = offset(ntype) + type_nid with 0 <= type_nid < N_t, its
\* ntype_id is the type whose global-id range contains global_nid, and the
\* three columns of a local partition have one length, row by row one node.
C36_NodeRecordIdsAgree ==
    \A r \in Workers : \A l \in DOMAIN node_data[r] :
        LET cols == node_data[r][l]
        IN /\ \A c \in NodeColumns : Len(cols[c]) = Len(cols.global_nid)
           /\ \A j \in 1..Len(cols.global_nid) : NodeOfSchema(cols, j)

\* gen_node_data has returned on a worker that holds, in one local partition,
\* nodes of two types, the second with a global id that is not its type id
C36_Witness ==
    \E r \in Workers : \E l \in LocalParts :
        /\ Returned(r, "gen_node_data")
        /\ \E i, j \in 1..Len(node_data[r][l].global_nid) :
              /\ node_data[r][l].ntype_id[i] = 0
              /\ node_data[r][l].ntype_id[j] = 1
              /\ node_data[r][l].global_nid[j] # node_data[r][l].global_type_nid[j]
              /\ node_data[r][l].global_type_nid[j] = 1

\* ------------------- properties: the edge columns the feature shuffle reads
\* worker r is inside the call of exchange_features for the edge features
InEdgeFeatureShuffle(r) ==
    ph[r] <= Len(plan) /\ plan[ph[r]] = "exchange_edge_features"

\* exchange_edge_data has removed the unshuffled columns of worker r
EdgeColumnsRemoved(r) == edge_data[r].plain = <<>>

\* C37: the edge-feature shuffle, which reads the unshuffled columns
\* global_eid and global_dst of the edge dictionary, is over on a worker
\* before exchange_edge_data removes them: while the worker is in the
\* edge-feature shuffle the columns are there as they were read, once they
\* are removed the worker has returned from it, and no lookup of
\* exchange_feature finds the columns missing.
C37_EdgeFeaturesShuffledBeforeColumnsRemoved ==
    \A r \in Workers :
        /\ InEdgeFeatureShuffle(r) =>
              ~EdgeColumnsRemoved(r) /\ Unshuffled(r) = edge_files[r]
        /\ EdgeColumnsRemoved(r) => Returned(r, "exchange_edge_features")
        /\ error[r] # "KeyError"

\* a worker has its columns removed and holds the edge-feature rows it
\* received, while a peer is still in exchange_edge_data with its columns
C37_Witness ==
    \E r, q \in Workers :
        /\ EdgeColumnsRemoved(r)
        /\ \E key \in DOMAIN rcvd[r].edge_features.features :
              Len(rcvd[r].edge_features.features[key]) >= 1
        /\ ~EdgeColumnsRemoved(q) /\ pc[q] = "edge_cleanup"


\* ------------- properties: the call of the node-feature shuffle, line 856
\* C38: exchange_graph_data calls exchange_features for the node features
\* with every parameter of lines 568-579 bound, feat_mesg_size included, so
\* that on no worker the call fails to bind its arguments, and a worker that
\* is in the edge-feature shuffle has returned from the node-feature shuffle
C38_NodeFeatureShuffleCalledInFullAndReturnsFirst ==
    \A r \in Workers :
        /\ error[r] # "TypeError"
        /\ InEdgeFeatureShuffle(r) => Returned(r, "exchange_node_features")


\* ------------------------------------ properties: the sort of reorder_data
\* the index arrays that take every position of a column of length n once
IndexArrays(n) == {[i \in 1..n |-> q[i] - 1] : q \in Permutations(1..n)}

NonDecreasing(a) == \A i, j \in 1..Len(a) : i < j => a[i] <= a[j]

\* worker r is in reorder_data
InReorderData(r) == pc[r] = "reorder_data"

\* the columns of local partition l after the step are the columns before
\* it, all taken at one index array that orders the key column
ReorderedAsOne(before, after, key) ==
    /\ DOMAIN after = DOMAIN before
    /\ \E idx \in IndexArrays(Len(before[key])) :
          \A c \in DOMAIN before : after[c] = Take(before[c], idx)
    /\ NonDecreasing(after[key])

\* C39: reorder_data applies, for each local partition, one permutation to
\* all the columns of that partition, so that the fields of a record stay on
\* one row and the records of the partition are the same as before; the key
\* column is non-decreasing afterwards; the result for a partition is made
\* of that partition's columns alone, and the dictionaries of the other
\* workers and the other dictionary of the worker are left as they were
C39_ReorderAppliesOnePermutationPerLocalPartition ==
    [][\A r \in Workers :
          InReorderData(r) /\ ~InReorderData(r)' =>
              /\ IF OnNodes(r)
                 THEN /\ DOMAIN node_data'[r] = LocalParts
                      /\ \A l \in LocalParts :
                            ReorderedAsOne(node_data[r][l], node_data'[r][l], "ntype_id")
                      /\ edge_data' = edge_data
                 ELSE /\ DOMAIN edge_data'[r].local = LocalParts
                      /\ \A l \in LocalParts :
                            ReorderedAsOne(edge_data[r].local[l], edge_data'[r].local[l],
                                           "etype_id")
                      /\ edge_data'[r].plain = edge_data[r].plain
                      /\ node_data' = node_data
              /\ \A s \in Workers \ {r} :
                    node_data'[s] = node_data[s] /\ edge_data'[s] = edge_data[s]]_vars

\* row i of the columns holds the edge with global id eid and type t
HoldsEdge(cols, i, eid, t) ==
    i \in 1..Len(cols.global_eid) /\ cols.global_eid[i] = eid /\ cols.etype_id[i] = t

\* C39 witness: a worker with two local partitions, neither empty, has
\* returned from reorder_data on its edges; one of the partitions holds the
\* third edge of worker 0, of type 0, in front of the edge of worker 1, of
\* type 1, which the edge shuffle had delivered one round ahead of it
C39_Witness ==
    \E r \in Workers :
        /\ Returned(r, "reorder_edge_data")
        /\ Cardinality(LocalParts) = 2
        /\ \A l \in LocalParts : Len(edge_data[r].local[l].etype_id) > 0
        /\ \E l \in LocalParts : \E i, j \in 1..Len(edge_data[r].local[l].etype_id) :
              /\ i < j
              /\ HoldsEdge(edge_data[r].local[l], i, 2, 0)
              /\ HoldsEdge(edge_data[r].local[l], j, 3, 1)

=============================================================================
